---- MODULE Spec2Model ----
(***************************************************************************)
(* Model of the SuperCommand of juju/cmd: the command registry             *)
(* (Register, RegisterDeprecated, RegisterAlias, RegisterSuperAlias,       *)
(* insert), the resolution of a command line (SetFlags, Init: user         *)
(* aliases, registry lookup, missing callback, flag layering) and the      *)
(* dispatch (Run, missingCommand.Run, Main's exit code).                   *)
(***************************************************************************)
EXTENDS Integers, Sequences, FiniteSets, TLC

(***************************************************************************)
(* Bounds of the model.                                                    *)
(***************************************************************************)
\* number of registration calls made during setup
MaxRegs == 2
\* number of tokens following the first token of a command line
MaxTail == 1

(***************************************************************************)
(* Values.                                                                 *)
(***************************************************************************)
\* a nil Command, a nil DeprecationCheck
Nil == "nil"
\* no panic, a nil error, no alias
NoPanic == <<>>
NoErr == <<>>
NoAlias == <<>>

\* The two SuperCommands of the model: the top-level one and one nested in it.
Top == "jujutest"
Sub == "bar"
SuperIds == {Top, Sub}

\* c.help of a SuperCommand, and its version command
HelpOf(c) == IF c = Top THEN "help@jujutest" ELSE "help@bar"
VersionOf(c) == IF c = Top THEN "version@jujutest" ELSE "version@bar"

\* Leaf commands that the program may register (the handlers).
Leaves == {"test", "flip", "foo"}
\* The commands the setup code passes to Register / RegisterDeprecated of Top
Registrable == {"test", "flip", Sub}

\* the leaf command that defines a string flag named version; it is
\* registered under the name "test"
VersionFlagCmd == "testVersionFlagCommand"

\* Info().Name of a command
InfoName(cmd) == IF cmd = VersionFlagCmd THEN "test" ELSE cmd
\* Info().Aliases of a command
InfoAliases(cmd) == IF cmd = "flip" THEN <<"flap">> ELSE <<>>
\* Command.IsSuperCommand
IsSuperCommand(cmd) == cmd \in SuperIds

\* DeprecationCheck objects: what Deprecated() and Obsolete() report.
CheckIds == {"dep", "obs"}
CheckInit ==
    [k \in CheckIds |->
        [deprecated |-> k = "dep",
         replacement |-> IF k = "dep" THEN "new" ELSE "",
         obsolete |-> k = "obs"]]

\* SuperCommandParams of the top-level SuperCommand the program may use.
\* aliasFile is the UserAliasesFilename ("" when none), version the Version
\* ("" when none).
\* A Log is given together with a MissingCallback (NewSuperWithCallback) and
\* with a NotifyRun, and the programs that have an alias file have a version
\* and a Purpose.
ParamSets ==
    {p \in [usagePrefix : {""}, version : {"", "1.0"}, aliasFile : {"", "aliases"},
            missingCallback : BOOLEAN, log : BOOLEAN, notifyRun : BOOLEAN,
            purpose : {"", "to be purposeful"}] :
        /\ p.log = p.missingCallback
        /\ p.notifyRun = p.log
        /\ (p.version = "") = (p.aliasFile = "")
        /\ (p.purpose = "") = (p.version = "")}
\* The nested SuperCommand is made with its parent's name as UsagePrefix.
SubParams ==
    [usagePrefix |-> Top, version |-> "", aliasFile |-> "",
     missingCallback |-> FALSE, log |-> FALSE, notifyRun |-> TRUE, purpose |-> ""]

\* The alias table read from the alias file (the result of ParseAliasFile).
AliasTable ==
    [n \in {"def", "firm", "other", "test", "loop"} |->
        CASE n = "def" -> <<"test">>
          [] n = "firm" -> <<"test", "--option", "error">>
          [] n = "other" -> <<"def">>
          [] n = "test" -> <<"flip">>
          [] n = "loop" -> <<"loop", "arg">>]
EmptyTable == [n \in {} |-> <<>>]
\* Another alias file: two aliases that name each other, and aliases named as
\* commands are, the built-in help among them.
ShadowTable ==
    [n \in {"ping", "pong", "help", "flip"} |->
        CASE n = "ping" -> <<"pong">>
          [] n = "pong" -> <<"ping", "arg">>
          [] n = "help" -> <<"test">>
          [] n = "flip" -> <<"flip", "arg">>]

VARIABLES
    params,      \* SuperCommandParams of each SuperCommand
    subcmds,     \* c.subcmds of each SuperCommand: name -> commandReference
    checks,      \* what each DeprecationCheck object reports
    userAliases, \* c.userAliases of each SuperCommand
    regs,        \* number of registration calls made
    lastReg,     \* the last registration call, its panic and the registry before it
    pc,          \* position of the program: setup, ready, then in Main: parsed,
                 \* inited, and returned: parseFailed, initFailed, done
    cmdline,     \* the args given to Main
    st,          \* fields of the SuperCommands and commands set by flags and Init
    err,         \* the error Main holds after the current step
    trace,       \* what was written and which handlers were called, in order
    exitCode,    \* Main's return value (-1 until Main returns)
    call         \* the last call of a function of the library made on its own:
                 \* the function, its arguments and its result

vars == <<params, subcmds, checks, userAliases, regs, lastReg, pc, cmdline, st,
          err, trace, exitCode, call>>

(***************************************************************************)
(* The registry.                                                           *)
(***************************************************************************)
commandReference(name, command, alias, check) ==
    [name |-> name, command |-> command, alias |-> alias, check |-> check]

\* SuperCommand.init: the registry after construction
init(c, p) ==
    (("help" :> commandReference("", HelpOf(c), NoAlias, Nil))
     @@ (IF p.version # ""
         THEN ("version" :> commandReference("", VersionOf(c), NoAlias, Nil))
         ELSE <<>>))

\* ParseAliasFile, by its result: no file name, no aliases
ParseAliasFile(aliasFilename) ==
    IF aliasFilename = "" THEN EmptyTable
    ELSE IF aliasFilename = "aliases" THEN AliasTable
    ELSE ShadowTable

\* A registration result: the registries and the panic raised (NoPanic if none).
Ok(all) == [subcmds |-> all, panic |-> NoPanic]
Panic(all, msg) == [subcmds |-> all, panic |-> msg]

insertOverwrites(all, c, value) ==
    Ok([all EXCEPT ![c] = (value.name :> value) @@ all[c]])

\* SuperCommand.insert
insert(all, c, value) ==
    IF value.name \in DOMAIN all[c]
    THEN Panic(all, <<"command already registered", value.name>>)
    ELSE Ok([all EXCEPT ![c] = all[c] @@ (value.name :> value)])

\* the loop over info.Aliases of Register and RegisterDeprecated: the first
\* panic ends it
RECURSIVE insertAliases(_, _, _, _, _, _)
insertAliases(all, c, subcmd, names, check, i) ==
    IF i > Len(names) THEN Ok(all)
    ELSE LET r == insert(all, c,
                    commandReference(names[i], subcmd, <<InfoName(subcmd)>>, check))
         IN IF r.panic # NoPanic THEN r
            ELSE insertAliases(r.subcmds, c, subcmd, names, check, i + 1)

RegisterPrimaryOnly(all, c, subcmd) ==
    insert(all, c, commandReference(InfoName(subcmd), subcmd, NoAlias, Nil))

\* a Register that inserts all the names or none
RegisterAllOrNothing(all, c, subcmd) ==
    LET r == insert(all, c, commandReference(InfoName(subcmd), subcmd, NoAlias, Nil))
        q == IF r.panic # NoPanic THEN r
             ELSE insertAliases(r.subcmds, c, subcmd, InfoAliases(subcmd), Nil, 1)
    IN IF q.panic # NoPanic THEN Panic(all, q.panic) ELSE q

\* SuperCommand.Register
Register(all, c, subcmd) ==
    LET r == insert(all, c, commandReference(InfoName(subcmd), subcmd, NoAlias, Nil))
    IN IF r.panic # NoPanic THEN r
       ELSE insertAliases(r.subcmds, c, subcmd, InfoAliases(subcmd), Nil, 1)

RegisterDeprecatedIgnoresObsolete(all, c, subcmd, check, ck) ==
    IF subcmd = Nil THEN Ok(all)
    ELSE LET r == insert(all, c, commandReference(InfoName(subcmd), subcmd, NoAlias, check))
         IN IF r.panic # NoPanic THEN r
            ELSE insertAliases(r.subcmds, c, subcmd, InfoAliases(subcmd), check, 1)

\* SuperCommand.RegisterDeprecated; ck is what the check objects report
RegisterDeprecated(all, c, subcmd, check, ck) ==
    IF subcmd = Nil THEN Ok(all)
    ELSE IF check # Nil /\ ck[check].obsolete THEN Ok(all)
    ELSE LET r == insert(all, c, commandReference(InfoName(subcmd), subcmd, NoAlias, check))
         IN IF r.panic # NoPanic THEN r
            ELSE insertAliases(r.subcmds, c, subcmd, InfoAliases(subcmd), check, 1)

RegisterAliasIgnoresObsolete(all, c, name, forName, check, ck) ==
    IF forName \notin DOMAIN all[c]
    THEN Panic(all, <<"not found when registering alias", forName>>)
    ELSE insert(all, c, commandReference(name, all[c][forName].command, <<forName>>, check))

\* SuperCommand.RegisterAlias
RegisterAlias(all, c, name, forName, check, ck) ==
    IF check # Nil /\ ck[check].obsolete THEN Ok(all)
    ELSE IF forName \notin DOMAIN all[c]
    THEN Panic(all, <<"not found when registering alias", forName>>)
    ELSE insert(all, c, commandReference(name, all[c][forName].command, <<forName>>, check))

\* an alias for the SuperCommand itself, not for its subcommand
RegisterSuperAliasForSuper(all, c, name, super, forName, check, ck) ==
    IF check # Nil /\ ck[check].obsolete THEN Ok(all)
    ELSE IF super \notin DOMAIN all[c]
    THEN Panic(all, <<"not found when registering alias", super>>)
    ELSE insert(all, c, commandReference(name, all[c][super].command, <<super>>, check))

\* SuperCommand.RegisterSuperAlias
RegisterSuperAlias(all, c, name, super, forName, check, ck) ==
    IF check # Nil /\ ck[check].obsolete THEN Ok(all)
    ELSE IF super \notin DOMAIN all[c]
    THEN Panic(all, <<"not found when registering alias", super>>)
    ELSE IF ~IsSuperCommand(all[c][super].command)
    THEN Panic(all, <<"is not a SuperCommand", super>>)
    ELSE LET superCmd == all[c][super].command
         IN IF forName \notin DOMAIN all[superCmd]
            THEN Panic(all, <<"not found as a command in", forName, super>>)
            ELSE insert(all, c,
                    commandReference(name, all[superCmd][forName].command,
                                     <<super, forName>>, check))

\* the answer the check gave when the program started
DeprecatedAsRegistered(r, ck) ==
    IF r.check = Nil THEN [deprecated |-> FALSE, replacement |-> ""]
    ELSE [deprecated |-> CheckInit[r.check].deprecated,
          replacement |-> CheckInit[r.check].replacement]

\* commandReference.Deprecated
Deprecated(r, ck) ==
    IF r.check = Nil THEN [deprecated |-> FALSE, replacement |-> ""]
    ELSE [deprecated |-> ck[r.check].deprecated, replacement |-> ck[r.check].replacement]


(***************************************************************************)
(* Flags.                                                                  *)
(***************************************************************************)
\* the tokens gnuflag takes for flags
FlagTokens == {"--help", "-h", "--description", "--debug", "--version", "--no-alias",
               "--option", "--unknown", "--version=abc.123"}
\* the flags that take a value; the others are boolean
ValuedFlags == {"--option"}
\* a token that carries the value of its flag after an "="
InlineTokens == {"--version=abc.123"}
FlagName(tok) == IF tok = "--version=abc.123" THEN "--version" ELSE tok
FlagValue(tok) == IF tok = "--version=abc.123" THEN "abc.123" ELSE ""
\* in a flag set, the definition of a string flag of a name that a SuperCommand
\* gives to a boolean flag
StringDef(name) == IF name = "--version" THEN "--version=<string>" ELSE ""

\* Log.AddFlags
LogFlags == {"--debug"}

\* common flags that carry the top-level flags along
CommonFlagsWithTopLevel(p) ==
    (IF p.log THEN LogFlags ELSE {}) \cup {"-h", "--help", "--description"}
        \cup (IF p.version # "" THEN {"--version"} ELSE {})
        \cup (IF p.aliasFile # "" THEN {"--no-alias"} ELSE {})

\* SuperCommand.SetCommonFlags: the flags of c.commonflags
CommonFlags(p) ==
    (IF p.log THEN LogFlags ELSE {}) \cup {"-h", "--help", "--description"}

\* SuperCommand.SetFlags: the flags of c.flags
SetFlags(p) ==
    CommonFlags(p)
        \cup (IF p.version # "" THEN {"--version"} ELSE {})
        \cup (IF p.aliasFile # "" THEN {"--no-alias"} ELSE {})

\* SetFlags of the leaf commands: the test command has --option, the version
\* flag command a string flag named version, the simple command has no flags
LeafFlags(cmd) ==
    IF cmd = "test" THEN {"--option"}
    ELSE IF cmd = VersionFlagCmd THEN {StringDef("--version")}
    ELSE {}

\* Command.AllowInterspersedFlags: false for a SuperCommand, true by default
AllowInterspersedFlags(cmd) == ~IsSuperCommand(cmd)

\* FlagSet.Parse: the boolean flags seen, the values given, the remaining
\* args and the error. Flags seen before an error stay set.
RECURSIVE Parse(_, _, _, _, _, _, _)
Parse(defs, intersperse, args, i, seen, vals, rest) ==
    IF i > Len(args)
    THEN [err |-> NoErr, seen |-> seen, vals |-> vals, args |-> rest]
    ELSE LET tok == args[i] IN
         IF tok \notin FlagTokens
         THEN IF intersperse
              THEN Parse(defs, intersperse, args, i + 1, seen, vals, Append(rest, tok))
              ELSE [err |-> NoErr, seen |-> seen, vals |-> vals,
                    args |-> rest \o SubSeq(args, i, Len(args))]
         ELSE LET name == FlagName(tok)
                  isBool == name \in defs /\ name \notin ValuedFlags
                  isString == \/ name \in defs /\ name \in ValuedFlags
                              \/ StringDef(name) \in defs
         IN
         IF ~isBool /\ ~isString
         THEN [err |-> <<"flag provided but not defined:", name>>,
               seen |-> seen, vals |-> vals, args |-> rest]
         ELSE IF isBool
         THEN IF tok \in InlineTokens
              THEN [err |-> <<"invalid boolean value for flag", name>>,
                    seen |-> seen, vals |-> vals, args |-> rest]
              ELSE Parse(defs, intersperse, args, i + 1, seen \cup {name}, vals, rest)
         ELSE IF tok \in InlineTokens
         THEN Parse(defs, intersperse, args, i + 1, seen,
                    (name :> FlagValue(tok)) @@ vals, rest)
         ELSE IF i = Len(args)
         THEN [err |-> <<"flag needs an argument:", name>>,
               seen |-> seen, vals |-> vals, args |-> rest]
         ELSE Parse(defs, intersperse, args, i + 2, seen,
                    (name :> args[i + 1]) @@ vals, rest)

\* The variables the flags of SuperCommand c are bound to, after a parse.
ApplyFlags(s, c, r) ==
    [s EXCEPT
        !.showHelp[c] = @ \/ "--help" \in r.seen \/ "-h" \in r.seen,
        !.showDescription[c] = @ \/ "--description" \in r.seen,
        !.showVersion[c] = @ \/ "--version" \in r.seen,
        !.noAlias[c] = @ \/ "--no-alias" \in r.seen,
        !.debug = @ \/ "--debug" \in r.seen,
        !.option = IF "--option" \in DOMAIN r.vals THEN r.vals["--option"] ELSE @,
        !.version = IF "--version" \in DOMAIN r.vals THEN r.vals["--version"] ELSE @]

(***************************************************************************)
(* Resolution: SuperCommand.Init.                                          *)
(***************************************************************************)
\* the zero commandReference: c.action before Init, and after a failed lookup
NoAction == commandReference("", Nil, NoAlias, Nil)
MissingCmd == "missingCommand"
NoMissing == [superName |-> "", name |-> "", args |-> <<>>]

missingCommandDropsFlags(c, args) ==
    [superName |-> c, name |-> args[1],
     args |-> SelectSeq(Tail(args), LAMBDA t : t \notin FlagTokens)]

\* the missingCommand that SuperCommand.Init makes of the args
missingCommand(c, args) ==
    [superName |-> c, name |-> args[1], args |-> Tail(args)]

StInit ==
    [args |-> <<>>,
     showHelp |-> [c \in SuperIds |-> FALSE],
     showDescription |-> [c \in SuperIds |-> FALSE],
     showVersion |-> [c \in SuperIds |-> FALSE],
     noAlias |-> [c \in SuperIds |-> FALSE],
     action |-> [c \in SuperIds |-> NoAction],
     missing |-> [c \in SuperIds |-> NoMissing],
     debug |-> FALSE,
     option |-> "",
     version |-> ""]

Ev(kind, who, what) == [ev |-> kind, who |-> who, what |-> what]

\* CheckEmpty
CheckEmpty(args) == IF args = <<>> THEN NoErr ELSE <<"unrecognized args:">> \o args

\* Init of the commands that are not SuperCommands: the test command takes no
\* positional args, the others (simple, help, version) take any.
LeafInit(w, cmd, args) ==
    [w EXCEPT !.trace = Append(@, Ev("Init", cmd, args)),
              !.err = IF cmd \in {"test", VersionFlagCmd} THEN CheckEmpty(args)
                      ELSE NoErr]

\* the args after the substitution of a user alias
AliasNever(aliases, noAlias, args) == args
AliasAlways(aliases, noAlias, args) ==
    IF args[1] \in DOMAIN aliases THEN aliases[args[1]] \o Tail(args) ELSE args
\* the substitution applied again to its result
UserAliasTwice(aliases, noAlias, args) ==
    LET once == IF args[1] \in DOMAIN aliases /\ ~noAlias
                THEN aliases[args[1]] \o Tail(args)
                ELSE args
    IN IF once # args /\ once[1] \in DOMAIN aliases
       THEN aliases[once[1]] \o Tail(once)
       ELSE once
\* the registry looked up before the alias table
UserAliasUnlessRegistered(aliases, noAlias, args) ==
    IF args[1] \in DOMAIN aliases /\ ~noAlias /\ args[1] \notin {"help", "test", "flip"}
    THEN aliases[args[1]] \o Tail(args)
    ELSE args
UserAlias(aliases, noAlias, args) ==
    IF args[1] \in DOMAIN aliases /\ ~noAlias
    THEN aliases[args[1]] \o Tail(args)
    ELSE args

\* SuperCommand.Init of c on the world w = [st, err, trace]; env is the
\* program: [params, subcmds, userAliases].
RECURSIVE SuperInit(_, _, _, _)
SuperInit(env, w, c, args0) ==
    IF w.st.showDescription[c] THEN [w EXCEPT !.err = CheckEmpty(args0)]
    ELSE IF Len(args0) = 0
    THEN LeafInit([w EXCEPT !.st.action[c] = env.subcmds[c]["help"]], HelpOf(c), args0)
    ELSE
    LET args1 == UserAlias(env.userAliases[c], w.st.noAlias[c], args0)
        found == args1[1] \in DOMAIN env.subcmds[c]
    IN  IF ~found
        THEN IF env.params[c].missingCallback
             THEN [w EXCEPT !.st.action[c] =
                                commandReference("", MissingCmd, NoAlias, Nil),
                            !.st.missing[c] = missingCommand(c, args1),
                            !.err = NoErr]
             ELSE [w EXCEPT !.st.action[c] = NoAction,
                            !.err = <<"unrecognized command:", c, args1[1]>>]
        ELSE
        LET action == env.subcmds[c][args1[1]]
            subcmd == action.command
            defs == IF IsSuperCommand(subcmd)
                    THEN CommonFlags(env.params[c])
                    ELSE CommonFlags(env.params[c]) \cup LeafFlags(subcmd)
            r == Parse(defs, AllowInterspersedFlags(subcmd), Tail(args1), 1,
                       {}, <<>>, <<>>)
            st1 == ApplyFlags([w.st EXCEPT !.action[c] = action], c, r)
        IN  IF r.err # NoErr THEN [w EXCEPT !.st = st1, !.err = r.err]
            ELSE
            LET help == st1.showHelp[c]
                args2 == IF help THEN <<action.name>> ELSE r.args
                action2 == IF help THEN env.subcmds[c]["help"] ELSE action
                w2 == [w EXCEPT !.st = [st1 EXCEPT !.action[c] = action2]]
            IN  IF IsSuperCommand(action2.command)
                THEN SuperInit(env, w2, action2.command, args2)
                ELSE LeafInit(w2, action2.command, args2)


(***************************************************************************)
(* Dispatch: SuperCommand.Run, missingCommand.Run.                         *)
(***************************************************************************)
ErrSilent == <<"ErrSilent">>
IsErrSilent(e) == e = ErrSilent

\* An error of type *UnrecognizedCommand carries its type in front of its text.
UnrecognizedCommandf(text) == <<"UnrecognizedCommand">> \o text
DefaultUnrecognizedCommand(name) ==
    UnrecognizedCommandf(<<"unrecognized command:">> \o name)
IsUnrecognizedCommand(e) == e # NoErr /\ e[1] = "UnrecognizedCommand"
\* Error() of an error
ErrorText(e) == IF IsUnrecognizedCommand(e) THEN Tail(e) ELSE e

\* What a handler's Run, or the missing callback, returns: the program's choice.
Outcomes == {"nil", "err", "silent", "unrecognized"}
OutcomeErr(outcome) ==
    CASE outcome = "nil" -> NoErr
      [] outcome = "err" -> <<"BAM!">>
      [] outcome = "silent" -> ErrSilent
      [] outcome = "unrecognized" -> UnrecognizedCommandf(<<"no such plugin">>)

\* the args the command was last initialised with
InitArgs(w, cmd) ==
    LET inits == {i \in 1..Len(w.trace) :
                    w.trace[i].ev = "Init" /\ w.trace[i].who = cmd}
    IN IF inits = {} THEN <<>>
       ELSE w.trace[CHOOSE i \in inits : \A j \in inits : j <= i].what

\* The help command of c renders the help of c, or of the subcommand of c it
\* was initialised with, and the version command writes the version: they
\* return nil. Another handler, and help on anything else, returns what the
\* program chooses.
HandlerOutcome(env, w, c, cmd, outcome) ==
    IF cmd \in {VersionOf(c), VersionFlagCmd} THEN "nil"
    ELSE IF /\ cmd = HelpOf(c)
            /\ \/ InitArgs(w, cmd) = <<>>
               \/ /\ Len(InitArgs(w, cmd)) = 1
                  /\ InitArgs(w, cmd)[1] \in DOMAIN env.subcmds[c]
    THEN "nil"
    ELSE outcome

\* what a handler that returns nil has written to stdout
Output(env, w, c, cmd) ==
    IF cmd = VersionOf(c) THEN <<Ev("stdout", "version", <<env.params[c].version>>)>>
    ELSE IF cmd = HelpOf(c) THEN <<Ev("stdout", "help", <<c>> \o InitArgs(w, cmd))>>
    ELSE <<>>

\* Run of a command that is not a SuperCommand
LeafRun(w, cmd, outcome) ==
    [w EXCEPT !.trace = Append(@, Ev("Run", cmd, <<outcome>>)),
              !.err = OutcomeErr(outcome)]

\* missingCommand.Run
missingCommandRun(w, m, outcome) ==
    LET e == OutcomeErr(outcome)
    IN [w EXCEPT !.trace = Append(@, Ev("callback", m.name, m.args))
                               \o <<Ev("Run", MissingCmd, <<outcome>>)>>,
                 !.err = IF ~IsUnrecognizedCommand(e) THEN e
                         ELSE DefaultUnrecognizedCommand(<<m.superName, m.name>>)]

WarnNamesTarget(w, action, ck) ==
    IF Deprecated(action, ck).deprecated
    THEN [w EXCEPT !.trace =
            Append(@, Ev("stderr", "WARNING",
                         <<InfoName(action.command), Deprecated(action, ck).replacement>>))]
    ELSE w

\* the deprecation warning of SuperCommand.Run
WarnDeprecation(w, action, ck) ==
    IF Deprecated(action, ck).deprecated
    THEN [w EXCEPT !.trace =
            Append(@, Ev("stderr", "WARNING",
                         <<action.name, Deprecated(action, ck).replacement>>))]
    ELSE w

RunErrorKept(w) ==
    IF w.err # NoErr /\ ~IsErrSilent(w.err)
    THEN [w EXCEPT !.trace = Append(@, Ev("stderr", "ERROR", ErrorText(w.err)))]
    ELSE w

RunErrorSwallowed(w) ==
    IF w.err # NoErr /\ ~IsErrSilent(w.err)
    THEN [w EXCEPT !.trace = Append(@, Ev("stderr", "ERROR", ErrorText(w.err))),
                   !.err = NoErr]
    ELSE w

\* SuperCommand.Run after the subcommand's Run: an error that is not silent
\* is written, and ErrSilent returned in its place
RunError(w) ==
    IF w.err # NoErr /\ ~IsErrSilent(w.err)
    THEN [w EXCEPT !.trace = Append(@, Ev("stderr", "ERROR", ErrorText(w.err))),
                   !.err = ErrSilent]
    ELSE w

\* the name with its prefix whatever the prefix
CommandPathPrefixed(env, c) == <<env.params[c].usagePrefix, c>>

\* the name SuperCommand.Run gives to notifyRun: the Name of c after its
\* UsagePrefix, the path of the command from the program's name
CommandPath(env, c) ==
    IF env.params[c].usagePrefix # "" /\ env.params[c].usagePrefix # c
    THEN <<env.params[c].usagePrefix, c>>
    ELSE <<c>>

\* Info().Name of the SuperCommand c: its Name, and the Info().Name of the
\* subcommand it has selected
RECURSIVE SuperInfoName(_, _)
SuperInfoName(s, c) ==
    LET cmd == s.action[c].command
    IN IF cmd = Nil THEN <<c>>
       ELSE IF IsSuperCommand(cmd) THEN <<c>> \o SuperInfoName(s, cmd)
       ELSE IF cmd = HelpOf(c) THEN <<c, "help">>
       ELSE IF cmd = VersionOf(c) THEN <<c, "version">>
       ELSE <<c, InfoName(cmd)>>

DescriptionWithoutPurpose(env, s, c) ==
    SuperInfoName(s, c) \o <<": no description available">>

\* the line SuperCommand.Run writes for --description
Description(env, s, c) ==
    IF env.params[c].purpose # "" THEN <<env.params[c].purpose>>
    ELSE SuperInfoName(s, c) \o <<": no description available">>

\* Log.Start returns an error (the verbose and quiet flags clash, or the log
\* file cannot be opened): a choice of the environment, given as the outcome
LogStartFails == "Log.Start fails"
LogStartError == <<"Log.Start:", "error">>

\* SuperCommand.Run of c on the world w
RECURSIVE SuperRun(_, _, _, _, _)
SuperRun(env, ck, w, c, outcome) ==
    IF w.st.showDescription[c]
    THEN [w EXCEPT !.trace = Append(@, Ev("stdout", "description",
                                          Description(env, w.st, c))),
                   !.err = NoErr]
    ELSE IF w.st.action[c].command = Nil
    THEN [w EXCEPT !.panic = <<"Run: missing subcommand; Init failed or not called">>]
    ELSE IF env.params[c].log /\ outcome = LogStartFails
    THEN [w EXCEPT !.trace = Append(@, Ev("Log.Start", c, <<>>)),
                   !.err = LogStartError]
    ELSE
    LET action == w.st.action[c]
        w0 == IF env.params[c].log
              THEN [w EXCEPT !.trace = Append(@, Ev("Log.Start", c, <<>>))]
              ELSE w
        w1 == IF env.params[c].notifyRun
              THEN [w0 EXCEPT !.trace =
                        Append(@, Ev("notifyRun", c, CommandPath(env, c)))]
              ELSE w0
        w2 == WarnDeprecation(w1, action, ck)
        w3 == IF IsSuperCommand(action.command)
              THEN SuperRun(env, ck, w2, action.command, outcome)
              ELSE IF action.command = MissingCmd
              THEN missingCommandRun(w2, w2.st.missing[c], outcome)
              ELSE LET o == HandlerOutcome(env, w2, c, action.command, outcome)
                       w4 == LeafRun(w2, action.command, o)
                   IN IF o = "nil"
                      THEN [w4 EXCEPT !.trace =
                                @ \o Output(env, w2, c, action.command)]
                      ELSE w4
    IN  IF w3.panic # NoPanic THEN w3 ELSE RunError(w3)

(***************************************************************************)
(* Command lines.                                                          *)
(***************************************************************************)
FirstTokens ==
    {"test", "flap", "x", "help", "version", "bar", "def", "firm", "other",
     "loop", "nope",
     "--no-alias", "--description", "--help", "--debug", "--version"}
TailTokens ==
    {"arg", "foo", "test", "def", "nope", "--help", "-h", "--debug", "--option",
     "--description"}

\* what follows the first two tokens
MoreTokens == {"arg", "--help"}

RECURSIVE Tails(_)
Tails(n) ==
    IF n = 0 THEN {<<>>}
    ELSE IF n = 1 THEN {<<>>} \cup {<<x>> : x \in TailTokens}
    ELSE LET shorter == Tails(n - 1)
         IN shorter \cup {Append(t, x) : t \in {u \in shorter : Len(u) = n - 1},
                                         x \in MoreTokens}

\* command lines for the subcommand "foo" of the nested SuperCommand
NestedLines ==
    {<<Sub, "foo", x>> : x \in {"arg", "--help", "--description", "--debug"}}
        \cup {<<Sub, "--help", "foo">>, <<"--debug", Sub, "foo">>}

CmdLines ==
    {<<>>} \cup {<<f>> \o t : f \in FirstTokens, t \in Tails(MaxTail)}
           \cup NestedLines

(***************************************************************************)
(* The program: construction, registrations, then Main on a command line.  *)
(***************************************************************************)
NoCall == [fn |-> "", args |-> <<>>, result |-> <<>>]

Env == [params |-> params, subcmds |-> subcmds, userAliases |-> userAliases]
World == [st |-> st, err |-> err, trace |-> trace, panic |-> NoPanic]
NoReg == [op |-> "", a |-> <<>>, check |-> Nil, panic |-> NoPanic]

InitWith(paramSets) ==
    /\ \E p \in paramSets : params = [c \in SuperIds |-> IF c = Top THEN p ELSE SubParams]
    \* NewSuperCommand of both, and Register of the leaf "foo" in the nested one
    /\ subcmds = Register([c \in SuperIds |-> init(c, params[c])], Sub, "foo").subcmds
    /\ userAliases = [c \in SuperIds |-> ParseAliasFile(params[c].aliasFile)]
    /\ checks = CheckInit
    /\ regs = 0
    /\ lastReg = NoReg
    /\ pc = "setup"
    /\ cmdline = <<>>
    /\ st = StInit
    /\ err = NoErr
    /\ trace = <<>>
    /\ exitCode = -1
    /\ call = NoCall

Init == InitWith(ParamSets)

\* A registration call returns or panics; the test code recovers the panic.
Registered(op, a, check, r) ==
    /\ subcmds' = r.subcmds
    /\ regs' = regs + 1
    /\ lastReg' = [op |-> op, a |-> a, check |-> check, panic |-> r.panic]
    /\ UNCHANGED <<params, checks, userAliases, pc, cmdline, st, err, trace, exitCode,
                   call>>

CheckArgs == CheckIds \cup {Nil}

DoRegister ==
    /\ pc = "setup" /\ regs < MaxRegs
    /\ \E subcmd \in Registrable :
        Registered("Register", <<subcmd>>, Nil, Register(subcmds, Top, subcmd))

DoRegisterDeprecated ==
    /\ pc = "setup" /\ regs < MaxRegs
    /\ \E subcmd \in {"test", "flip", Nil}, check \in CheckArgs :
        Registered("RegisterDeprecated", <<subcmd>>, check,
                   RegisterDeprecated(subcmds, Top, subcmd, check, checks))

DoRegisterAlias ==
    /\ pc = "setup" /\ regs < MaxRegs
    /\ \E name \in {"x", "flap", "help", "version"}, forName \in {"test", "help", "unknown"},
          check \in CheckArgs :
        Registered("RegisterAlias", <<name, forName>>, check,
                   RegisterAlias(subcmds, Top, name, forName, check, checks))

DoRegisterSuperAlias ==
    /\ pc = "setup" /\ regs < MaxRegs
    /\ \E name \in {"x"}, super \in {"bar", "test", "unknown"},
          forName \in {"foo", "unknown"}, check \in CheckArgs :
        Registered("RegisterSuperAlias", <<name, super, forName>>, check,
                   RegisterSuperAlias(subcmds, Top, name, super, forName, check, checks))

\* The setup code returns: the registry is complete.
SetupDone ==
    /\ pc = "setup"
    /\ pc' = "ready"
    /\ lastReg' = NoReg
    /\ regs' = 0
    /\ UNCHANGED <<params, subcmds, checks, userAliases, cmdline, st, err, trace,
                   exitCode, call>>

\* Main: SetFlags and the parse of the top-level flags
MainParseOf(lines) ==
    /\ pc = "ready"
    /\ \E line \in lines :
        LET r == Parse(SetFlags(params[Top]), AllowInterspersedFlags(Top), line, 1,
                       {}, <<>>, <<>>)
        IN /\ cmdline' = line
           /\ st' = [ApplyFlags(StInit, Top, r) EXCEPT !.args = r.args]
           /\ err' = r.err
           /\ IF r.err # NoErr
              THEN /\ trace' = <<Ev("stderr", "ERROR", r.err)>>
                   /\ exitCode' = 2
                   /\ pc' = "parseFailed"
              ELSE /\ trace' = <<>>
                   /\ exitCode' = -1
                   /\ pc' = "parsed"
    /\ UNCHANGED <<params, subcmds, checks, userAliases, regs, lastReg, call>>

MainParse == MainParseOf(CmdLines)

\* Main: Init of the SuperCommand on the remaining args
MainInit ==
    /\ pc = "parsed"
    /\ LET w == SuperInit(Env, World, Top, st.args)
       IN /\ st' = w.st
          /\ err' = w.err
          /\ IF w.err # NoErr
             THEN /\ trace' = IF IsErrSilent(w.err) THEN w.trace
                              ELSE Append(w.trace, Ev("stderr", "ERROR", ErrorText(w.err)))
                  /\ exitCode' = 2
                  /\ pc' = "initFailed"
             ELSE /\ trace' = w.trace
                  /\ exitCode' = -1
                  /\ pc' = "inited"
    /\ UNCHANGED <<params, subcmds, checks, userAliases, regs, lastReg, cmdline, call>>

\* Main: Run of the SuperCommand, and the exit code
MainRunOf(outcomes) ==
    /\ pc = "inited"
    /\ \E outcome \in outcomes :
        LET w == SuperRun(Env, checks, World, Top, outcome)
        IN /\ st' = w.st
           /\ err' = w.err
           /\ trace' = IF w.err # NoErr /\ ~IsErrSilent(w.err)
                       THEN Append(w.trace, Ev("stderr", "ERROR", ErrorText(w.err)))
                       ELSE w.trace
           /\ exitCode' = IF w.err # NoErr THEN 1 ELSE 0
           /\ pc' = "done"
    /\ UNCHANGED <<params, subcmds, checks, userAliases, regs, lastReg, cmdline, call>>

MainRun == MainRunOf(Outcomes)

Next ==
    \/ DoRegister
    \/ DoRegisterDeprecated
    \/ DoRegisterAlias
    \/ DoRegisterSuperAlias
    \/ SetupDone
    \/ MainParse
    \/ MainInit
    \/ MainRun

Spec == Init /\ [][Next]_vars


(***************************************************************************)
(* Notions used by the properties.                                         *)
(***************************************************************************)
Range(s) == {s[i] : i \in 1..Len(s)}

\* the names under which Register makes a command available
NamesOf(subcmd) == {InfoName(subcmd)} \cup Range(InfoAliases(subcmd))

\* the parse of the top-level flags of the command line given to Main
TopParse ==
    Parse(SetFlags(params[Top]), AllowInterspersedFlags(Top), cmdline, 1, {}, <<>>, <<>>)

\* Main has called Init of the top-level SuperCommand, and Init has returned
InitDone == pc \in {"inited", "initFailed", "done"}
\* Main has called Run of the top-level SuperCommand, and Run has returned
RunDone == pc = "done"
\* Main has returned
Returned == pc \in {"parseFailed", "initFailed", "done"}

\* a registration call has just returned or panicked, in the step
RegStep == regs' = regs + 1
RegStepOf(op) == RegStep /\ lastReg'.op = op

\* the check given to the registration call reports obsolete
ObsoleteCheck(check) == check # Nil /\ checks[check].obsolete

\* no entry of the top-level registry is removed or changed in the step
EntriesKept ==
    \A n \in DOMAIN subcmds[Top] :
        n \in DOMAIN subcmds'[Top] /\ subcmds'[Top][n] = subcmds[Top][n]

(***************************************************************************)
(* C1 (as amended). After a successful Register(h), each name of h (its    *)
(* primary name and its aliases) is bound to h; after a successful         *)
(* RegisterAlias(x, y, nil), x is bound to the command y is bound to; no   *)
(* later registration changes a binding; and Init([n]) of a registered     *)
(* name n selects the reference registered as n, provided n is not also a  *)
(* name of the user-alias table.                                           *)
(***************************************************************************)
C1_Bound ==
    /\ (pc = "setup" /\ lastReg.op = "Register" /\ lastReg.panic = NoPanic)
        => \A n \in NamesOf(lastReg.a[1]) :
                /\ n \in DOMAIN subcmds[Top]
                /\ subcmds[Top][n].command = lastReg.a[1]
    /\ (pc = "setup" /\ lastReg.op = "RegisterAlias" /\ lastReg.check = Nil
            /\ lastReg.panic = NoPanic)
        => /\ lastReg.a[1] \in DOMAIN subcmds[Top]
           /\ lastReg.a[2] \in DOMAIN subcmds[Top]
           /\ subcmds[Top][lastReg.a[1]].command = subcmds[Top][lastReg.a[2]].command

C1_Selected(shadowed) ==
    (/\ InitDone
     /\ Len(cmdline) = 1
     /\ cmdline[1] \in DOMAIN subcmds[Top]
     /\ cmdline[1] \notin shadowed)
        => st.action[Top] = subcmds[Top][cmdline[1]]

C1_RegisterThenResolve ==
    /\ [](C1_Bound /\ C1_Selected(DOMAIN userAliases[Top]))
    /\ [][EntriesKept]_vars

\* C1 as stated: Init([n]) selects the reference registered as n, for every
\* registered name n.
C1_AsStated == C1_Selected({})

\* The alias "flap" declared by the command "flip" resolves to "flip".
C1_Witness ==
    /\ pc = "inited"
    /\ cmdline = <<"flap">>
    /\ st.action[Top].name = "flap"
    /\ st.action[Top].command = "flip"

(***************************************************************************)
(* C2. A registration call that comes to insert a name that is already in  *)
(* the registry panics with "command already registered" and that name,    *)
(* whichever call inserted it (the built-in help and version included);    *)
(* no entry of the registry is ever overwritten or removed.                *)
(***************************************************************************)
\* the names a registration call comes to insert, in order
InsertAttempts(r) ==
    CASE r.op = "Register" -> <<InfoName(r.a[1])>> \o InfoAliases(r.a[1])
      [] r.op = "RegisterDeprecated" ->
            IF r.a[1] = Nil \/ ObsoleteCheck(r.check) THEN <<>>
            ELSE <<InfoName(r.a[1])>> \o InfoAliases(r.a[1])
      [] r.op = "RegisterAlias" ->
            IF ObsoleteCheck(r.check) \/ r.a[2] \notin DOMAIN subcmds[Top] THEN <<>>
            ELSE <<r.a[1]>>
      [] r.op = "RegisterSuperAlias" ->
            IF \/ ObsoleteCheck(r.check)
               \/ r.a[2] \notin DOMAIN subcmds[Top]
               \/ ~IsSuperCommand(subcmds[Top][r.a[2]].command)
               \/ r.a[3] \notin DOMAIN subcmds[subcmds[Top][r.a[2]].command]
            THEN <<>>
            ELSE <<r.a[1]>>

\* the names among those that are in the registry, or earlier among them
Present(names) ==
    {i \in 1..Len(names) :
        names[i] \in DOMAIN subcmds[Top] \cup {names[j] : j \in 1..(i - 1)}}

C3_ObsoleteAliasNoOp ==
    [][(RegStepOf("RegisterAlias") /\ ObsoleteCheck(lastReg'.check))
        => (subcmds' = subcmds /\ lastReg'.panic = NoPanic)]_vars

\* The obsolete alias "x" of the registered "test" is not in the registry.
C3_Witness ==
    /\ lastReg.op = "RegisterAlias"
    /\ lastReg.a = <<"x", "test">>
    /\ lastReg.check = "obs"
    /\ "test" \in DOMAIN subcmds[Top]
    /\ "x" \notin DOMAIN subcmds[Top]
    /\ lastReg.panic = NoPanic

(***************************************************************************)
(* C4. RegisterDeprecated with a check that reports obsolete inserts       *)
(* neither the primary name nor an alias of the command: it returns        *)
(* without a panic and everything Init and Run read is as before the call. *)
(***************************************************************************)
C4_ObsoleteSuppressed ==
    [][(RegStepOf("RegisterDeprecated") /\ ObsoleteCheck(lastReg'.check))
        => /\ lastReg'.panic = NoPanic
           /\ UNCHANGED <<params, subcmds, userAliases, checks>>
           /\ \A n \in NamesOf(lastReg'.a[1]) \ DOMAIN subcmds[Top] :
                n \notin DOMAIN subcmds'[Top]]_vars

\* The obsolete "flip" is suppressed with its alias "flap".
C4_Witness ==
    /\ lastReg.op = "RegisterDeprecated"
    /\ lastReg.a = <<"flip">>
    /\ lastReg.check = "obs"
    /\ lastReg.panic = NoPanic
    /\ "flip" \notin DOMAIN subcmds[Top]
    /\ "flap" \notin DOMAIN subcmds[Top]

(***************************************************************************)
(* The invocation, as the properties see it.                               *)
(***************************************************************************)
\* the world Main gives to Init: the top-level flags applied, nothing written
W0 ==
    [st |-> [ApplyFlags(StInit, Top, TopParse) EXCEPT !.args = TopParse.args],
     err |-> NoErr, trace |-> <<>>, panic |-> NoPanic]

\* Init was given a name, and went on to resolve it
Resolving == InitDone /\ st.args # <<>> /\ ~st.showDescription[Top]

\* the name Init was given is a name of the user-alias table, and --no-alias
\* was not given
Substituted ==
    /\ Resolving
    /\ st.args[1] \in DOMAIN userAliases[Top]
    /\ "--no-alias" \notin TopParse.seen

\* the name looked up in the registry
Requested ==
    IF Substituted THEN userAliases[Top][st.args[1]][1] ELSE st.args[1]

\* the positions in the trace of the warnings, of the calls of a handler's Run,
\* of the errors written
Warnings == {i \in 1..Len(trace) : trace[i].ev = "stderr" /\ trace[i].who = "WARNING"}
HandlerRuns == {i \in 1..Len(trace) : trace[i].ev = "Run"}
Errors == {i \in 1..Len(trace) : trace[i].ev = "stderr" /\ trace[i].who = "ERROR"}
InitEvents(t) == SelectSeq(t, LAMBDA e : e.ev = "Init")

C6_Like(env) ==
    (pc \in {"inited", "initFailed"} /\ Substituted)
        => LET a == st.args
               e == SuperInit(env, W0, Top, userAliases[Top][a[1]] \o Tail(a))
           IN /\ st = e.st
              /\ err = e.err
              /\ InitEvents(trace) = InitEvents(e.trace)

C6_UserAliasSubstitution ==
    /\ C6_Like([Env EXCEPT !.userAliases = [c \in SuperIds |-> EmptyTable]])
    /\ (pc \in {"inited", "initFailed"} /\ Substituted
            /\ Requested \in DOMAIN subcmds[Top])
        => st.action[Top] = IF st.showHelp[Top] THEN subcmds[Top]["help"]
                            ELSE subcmds[Top][Requested]

\* C6 as stated: Init([a, x1..xm]) behaves exactly like Init([t1..tn, x1..xm])
\* of the same SuperCommand.
C6_AsStated == C6_Like(Env)

\* "firm arg" gives the test command --option error and the arg.
C6_Witness ==
    /\ pc = "initFailed"
    /\ cmdline = <<"firm", "arg">>
    /\ st.action[Top] = commandReference("test", "test", NoAlias, Nil)
    /\ st.option = "error"
    /\ InitEvents(trace) = <<Ev("Init", "test", <<"arg">>)>>
    /\ err = <<"unrecognized args:", "arg">>

Resolver == IF st.action[Top].command = Sub THEN Sub ELSE Top

C8_AsStated ==
    /\ (Resolving /\ Requested \notin DOMAIN subcmds[Top])
        => /\ InitEvents(trace) = <<>>
           /\ \A i \in HandlerRuns : trace[i].who = MissingCmd
    /\ \A i \in Errors :
        trace[i].what[1] = "unrecognized command:"
            => LET path == CommandPath(Env, Resolver)
                   text == trace[i].what
               IN /\ Len(text) = Len(path) + 2
                  /\ SubSeq(text, 2, Len(path) + 1) = path

(***************************************************************************)
(* C9. When the name looked up is not registered and a MissingCallback is  *)
(* configured, Init returns no error, sets no flag and calls no Init: it   *)
(* only records the missing command, made of the name and of all the args  *)
(* after it; and Run calls the callback exactly once, with that name and   *)
(* those args, flags included.                                             *)
(***************************************************************************)
\* the args after the name looked up
Remaining ==
    IF Substituted THEN Tail(userAliases[Top][st.args[1]]) \o Tail(st.args)
    ELSE Tail(st.args)

Callbacks == {i \in 1..Len(trace) : trace[i].ev = "callback"}

C11_ErrorWrittenOnce ==
    RunDone
        => \A i \in HandlerRuns :
            LET outcome == trace[i].what[1]
            IN /\ outcome \in {"err", "unrecognized"}
                    => /\ Cardinality(Errors) = 1
                       /\ \A j \in Errors : j > i
                       /\ trace[i].who # MissingCmd
                            => \A j \in Errors :
                                    trace[j].what = ErrorText(OutcomeErr(outcome))
                       /\ err = ErrSilent
               /\ outcome = "silent" => (Errors = {} /\ err = ErrSilent)
               /\ outcome = "nil" => (Errors = {} /\ err = NoErr)

\* The handler "foo" of the nested SuperCommand fails: one error written.
C11_Witness ==
    /\ RunDone
    /\ cmdline = <<"bar", "foo">>
    /\ trace = <<Ev("Init", "foo", <<>>), Ev("notifyRun", Sub, <<Top, Sub>>),
                 Ev("Run", "foo", <<"err">>), Ev("stderr", "ERROR", <<"BAM!">>)>>
    /\ err = ErrSilent

(***************************************************************************)
(* C12 (as stated). When --help or -h is given with a name of the registry *)
(* and the flags parse, Init selects the help command and initialises it   *)
(* with the name the subcommand was invoked as; the Init and the Run of    *)
(* the subcommand are not called; and Main returns 0.                      *)
(***************************************************************************)
\* Init has found the name in the registry, parsed the flags, and help is
\* asked for
HelpAsked ==
    /\ pc \in {"inited", "done"}
    /\ Resolving
    /\ Requested \in DOMAIN subcmds[Top]
    /\ st.showHelp[Top]

C12_AsStated ==
    HelpAsked
        => /\ st.action[Top] = subcmds[Top]["help"]
           /\ InitEvents(trace) = <<Ev("Init", HelpOf(Top), <<Requested>>)>>
           /\ \A i \in HandlerRuns : trace[i].who = HelpOf(Top)
           /\ RunDone => exitCode = 0

\* "version -h": the help command is initialised with the empty name.
C12_Witness ==
    /\ pc = "inited"
    /\ cmdline = <<"version", "-h">>
    /\ "version" \in DOMAIN subcmds[Top]
    /\ st.action[Top] = subcmds[Top]["help"]
    /\ trace = <<Ev("Init", HelpOf(Top), <<"">>)>>

\* The same, for the names registered by Register, RegisterDeprecated,
\* RegisterAlias and RegisterSuperAlias, whose reference carries the name.
C12_RegisteredNames ==
    (HelpAsked /\ subcmds[Top][Requested].name = Requested) => C12_AsStated

(***************************************************************************)
(* C13. When Run has returned with --description set on a SuperCommand,    *)
(* that SuperCommand wrote exactly one line to stdout, its Purpose or, if  *)
(* it has none, its name and "no description available"; it returned nil;  *)
(* and it started no logging, called no notifyRun, wrote no warning and    *)
(* ran no handler. When --description is given before the command name,    *)
(* Init fails with "unrecognized args" on any remaining argument.          *)
(***************************************************************************)
Descriptions ==
    {i \in 1..Len(trace) : trace[i].ev = "stdout" /\ trace[i].who = "description"}

\* the line of the description of c, in the last event written
DescriptionLine(c) ==
    LET line == trace[Len(trace)].what
    IN /\ trace[Len(trace)].ev = "stdout"
       /\ trace[Len(trace)].who = "description"
       /\ IF params[c].purpose # "" THEN line = <<params[c].purpose>>
          ELSE /\ Len(line) >= 2
               /\ line[1] = c
               /\ line[Len(line)] = ": no description available"

C13_Description ==
    /\ (RunDone /\ st.showDescription[Top])
        => /\ Cardinality(Descriptions) = 1
           /\ DescriptionLine(Top)
           /\ \A i \in 1..(Len(trace) - 1) : trace[i].ev = "Init"
           /\ err = NoErr
           /\ exitCode = 0
    /\ (RunDone /\ ~st.showDescription[Top] /\ st.action[Top].command = Sub
            /\ st.showDescription[Sub])
        => /\ Cardinality(Descriptions) = 1
           /\ DescriptionLine(Sub)
           /\ \A i \in 1..(Len(trace) - 1) :
                \/ trace[i].ev = "Init"
                \/ trace[i].ev \in {"Log.Start", "notifyRun"} /\ trace[i].who = Top
           /\ err = NoErr
    /\ (InitDone /\ "--description" \in TopParse.seen /\ TopParse.args # <<>>)
        => /\ pc = "initFailed"
           /\ err = <<"unrecognized args:">> \o TopParse.args
           /\ InitEvents(trace) = <<>>

\* The deprecated alias "x" with --description, on a SuperCommand that has a
\* Log, a NotifyRun and a Purpose: only the Purpose is written.
C13_Witness ==
    /\ RunDone
    /\ cmdline = <<"x", "--description">>
    /\ params[Top].log /\ params[Top].notifyRun /\ params[Top].purpose # ""
    /\ st.action[Top].check = "dep"
    /\ trace = <<Ev("Init", "test", <<>>),
                 Ev("stdout", "description", <<params[Top].purpose>>)>>

(***************************************************************************)
(* C14 (as stated). With a version configured, Main on --version alone     *)
(* and Main on the version subcommand both write the version to stdout,    *)
(* nothing to stderr, and return 0. Without a version (and without a       *)
(* missing callback), --version is a flag provided but not defined and     *)
(* version an unrecognized command, and both return 2.                     *)
(***************************************************************************)
\* what was written to stdout and to stderr, in order
Written == SelectSeq(trace, LAMBDA e : e.ev \in {"stdout", "stderr"})

C14_AsStated ==
    /\ (Returned /\ params[Top].version # ""
            /\ cmdline \in {<<"--version">>, <<"version">>})
        => /\ Written = <<Ev("stdout", "version", <<params[Top].version>>)>>
           /\ exitCode = 0
    /\ (Returned /\ params[Top].version = "" /\ ~params[Top].missingCallback)
        => /\ cmdline = <<"--version">>
                => /\ err = <<"flag provided but not defined:", "--version">>
                   /\ exitCode = 2
           /\ cmdline = <<"version">>
                => /\ err = <<"unrecognized command:", Top, "version">>
                   /\ exitCode = 2

\* --version alone, with a version configured: the help is written.
C14_Witness ==
    /\ RunDone
    /\ cmdline = <<"--version">>
    /\ params[Top].version # ""
    /\ st.showVersion[Top]
    /\ st.action[Top] = subcmds[Top]["help"]
    /\ Written = <<Ev("stdout", "help", <<Top>>)>>
    /\ exitCode = 0


(***************************************************************************)
(* The functions of the library called on their own.  A string is the      *)
(* sequence of its bytes; the strings drawn are those over Alphabet of     *)
(* length at most MaxStr.                                                  *)
(***************************************************************************)
MaxStr == 4
Alphabet == {"a", "b"}

Strings == UNION {[1..n -> Alphabet] : n \in 0..MaxStr}

\* The slice d of la+1 integers is the sequence of its elements: d[j] of the
\* code is d[j + 1] here.
\* the inner loop with the diagonal never refreshed
RECURSIVE LevInnerStaleDiag(_, _, _, _, _, _)
LevInnerStaleDiag(a, b, i, j, d, lastdiag) ==
    IF j > Len(d) - 1 THEN d
    ELSE LET m1 == d[j + 1] + 1
             m2 == IF d[j] + 1 < m1 THEN d[j] + 1 ELSE m1
             temp == IF a[j] = b[i] THEN 0 ELSE 1
             m3 == IF lastdiag + temp < m2 THEN lastdiag + temp ELSE m2
         IN LevInnerStaleDiag(a, b, i, j + 1, [d EXCEPT ![j + 1] = m3], lastdiag)

\* for j := 1; j <= la; j++ : one row of the table, in place in d
RECURSIVE LevInner(_, _, _, _, _, _)
LevInner(a, b, i, j, d, lastdiag) ==
    IF j > Len(d) - 1 THEN d
    ELSE LET olddiag == d[j + 1]
             m1 == d[j + 1] + 1
             m2 == IF d[j] + 1 < m1 THEN d[j] + 1 ELSE m1
             temp == IF a[j] = b[i] THEN 0 ELSE 1
             m3 == IF lastdiag + temp < m2 THEN lastdiag + temp ELSE m2
         IN LevInner(a, b, i, j + 1, [d EXCEPT ![j + 1] = m3], olddiag)

\* for i := 1; i <= lb; i++ : d[0] = i, lastdiag = i - 1, then the row
RECURSIVE LevOuter(_, _, _, _)
LevOuter(a, b, i, d) ==
    IF i > Len(b) THEN d
    ELSE LevOuter(a, b, i + 1, LevInner(a, b, i, 1, [d EXCEPT ![1] = i], i - 1))

\* d := make([]int, la+1), d[i] = i for i in 1..la, the loops, return d[la]
levenshteinDistance(a, b) ==
    LevOuter(a, b, 1, [k \in 1..(Len(a) + 1) |-> k - 1])[Len(a) + 1]

(* FindClosestSubCommand.  The registry maps each name to its reference;   *)
(* the range over the map visits the names in an order the runtime picks,  *)
(* which is an input of the call.                                          *)
Letters ==
    <<"a", "b", "c", "d", "e", "f", "g", "h", "i", "j", "k", "l", "m",
      "n", "o", "p", "q", "r", "s", "t", "u", "v", "w", "x", "y", "z">>

Ord(ch) == CHOOSE i \in 1..Len(Letters) : Letters[i] = ch

\* x < y on strings: byte by byte, a proper prefix first
RECURSIVE StrLess(_, _)
StrLess(x, y) ==
    IF y = <<>> THEN FALSE
    ELSE IF x = <<>> THEN TRUE
    ELSE IF x[1] # y[1] THEN Ord(x[1]) < Ord(y[1])
    ELSE StrLess(Tail(x), Tail(y))

Help == <<"h", "e", "l", "p">>
List == <<"l", "i", "s", "t">>
Status == <<"s", "t", "a", "t", "u", "s">>
Hlp == <<"h", "l", "p">>
Foo == <<"f", "o", "o">>
BarSomethingFoo ==
    <<"b", "a", "r", "s", "o", "m", "e", "t", "h", "i", "n", "g", "f", "o", "o">>

MaxCmds == 2
NamePool ==
    {<<>>, <<"a">>, <<"a", "b">>, <<"b", "a">>, Help, List, Status, BarSomethingFoo}

\* the registries: a reference with its own command under each name; those of
\* at most MaxCmds names, and the one of help, list and status
Registries ==
    {[n \in S |-> [name |-> n, command |-> <<"command", n>>]] :
        S \in {T \in SUBSET NamePool : Cardinality(T) <= MaxCmds}
                \cup {{Help, List, Status}}}

\* the orders in which a range over the registry can visit its names
RangeOrders(reg) ==
    {o \in [1..Cardinality(DOMAIN reg) -> DOMAIN reg] :
        \A i, j \in DOMAIN o : i # j => o[i] # o[j]}

Requests == Strings \cup {Hlp, Foo}

\* the comparison handed to sort.Slice
matchLess(x, y) ==
    IF x.Value < y.Value THEN TRUE
    ELSE IF x.Value > y.Value THEN FALSE
    ELSE StrLess(x.Name, y.Name)

\* sort.Slice(matches, less): each element put before the first it is less than
RECURSIVE SortSlice(_, _)
SortSlice(matches, sorted) ==
    IF matches = <<>> THEN sorted
    ELSE LET m == Head(matches)
             before == {i \in 1..Len(sorted) : matchLess(m, sorted[i])}
             p == IF before = {} THEN Len(sorted) + 1
                  ELSE CHOOSE i \in before : \A k \in before : i <= k
         IN SortSlice(Tail(matches),
                      SubSeq(sorted, 1, p - 1) \o <<m>> \o SubSeq(sorted, p, Len(sorted)))

\* return "", nil, false
NilCommand == <<>>
NoMatch == [name |-> <<>>, command |-> NilCommand, ok |-> FALSE]

\* the threshold without the + 1
AcceptsBelowLength(matchedName, matchedValue) ==
    matchedName # <<>> /\ matchedValue < Len(matchedName)

\* a threshold of half the length
AcceptsNearOnly(matchedName, matchedValue) ==
    matchedName # <<>> /\ 2 * matchedValue < Len(matchedName) + 1

\* matchedName != "" && matchedValue < len(matchedName)+1
Accepts(matchedName, matchedValue) ==
    matchedName # <<>> /\ matchedValue < Len(matchedName) + 1

FindClosestSubCommand(reg, order, name) ==
    IF Cardinality(DOMAIN reg) = 0 THEN NoMatch
    ELSE LET matches == [i \in DOMAIN order |->
                            [Name |-> order[i],
                             Value |-> levenshteinDistance(name, order[i])]]
             sorted == SortSlice(matches, <<>>)
             matchedName == sorted[1].Name
             matchedValue == sorted[1].Value
         IN IF matchedName \in DOMAIN reg /\ Accepts(matchedName, matchedValue)
            THEN [name |-> matchedName, command |-> reg[matchedName].command,
                  ok |-> TRUE]
            ELSE NoMatch

\* one call is looked at in each behaviour: the functions keep no state
CallFindClosestSubCommand ==
    /\ call = NoCall
    /\ \E reg \in Registries, name \in Requests :
          \E order \in RangeOrders(reg) :
             call' = [fn |-> "FindClosestSubCommand", args |-> <<reg, order, name>>,
                      result |-> <<FindClosestSubCommand(reg, order, name)>>]
    /\ UNCHANGED <<params, subcmds, checks, userAliases, regs, lastReg, pc, cmdline,
                   st, err, trace, exitCode>>

CallLevenshtein ==
    /\ call = NoCall
    /\ \E a \in Strings, b \in Strings :
          call' = [fn |-> "levenshteinDistance", args |-> <<a, b>>,
                   result |-> <<levenshteinDistance(a, b)>>]
    /\ UNCHANGED <<params, subcmds, checks, userAliases, regs, lastReg, pc, cmdline,
                   st, err, trace, exitCode>>

LibNext ==
    \/ CallLevenshtein
    \/ CallFindClosestSubCommand

\* the calls are made on a SuperCommand constructed with the default parameters
LibInit == Init /\ params[Top].version = "" /\ ~params[Top].log

LibSpec == LibInit /\ [][LibNext]_vars

(***************************************************************************)
(* C17  levenshteinDistance(a, b) is the edit distance of a and b: the     *)
(* least number of single-character insertions, deletions and              *)
(* substitutions that turn a into b, for all strings up to the bound, the  *)
(* empty string included; it is 0 for identical strings, the same in both  *)
(* directions, and 3 for "kitten" and "sitting".                           *)
(***************************************************************************)
\* the strings one edit away from s
Edits(s) ==
    {SubSeq(s, 1, p - 1) \o SubSeq(s, p + 1, Len(s)) : p \in 1..Len(s)}
        \cup {SubSeq(s, 1, p) \o <<ch>> \o SubSeq(s, p + 1, Len(s)) :
                 p \in 0..Len(s), ch \in Alphabet}
        \cup {[s EXCEPT ![p] = ch] : p \in 1..Len(s), ch \in Alphabet}

\* the least k such that b is in the k-th layer around a; no shortest edit
\* script passes through a string longer than both ends
RECURSIVE EditLayers(_, _, _, _)
EditLayers(layer, b, k, maxLen) ==
    IF b \in layer THEN k
    ELSE EditLayers(layer \cup {t \in UNION {Edits(s) : s \in layer} : Len(t) <= maxLen},
                    b, k + 1, maxLen)

EditDistance(a, b) ==
    EditLayers({a}, b, 0, IF Len(a) > Len(b) THEN Len(a) ELSE Len(b))

Kitten == <<"k", "i", "t", "t", "e", "n">>
Sitting == <<"s", "i", "t", "t", "i", "n", "g">>

C17_EditDistance ==
    /\ call.fn = "levenshteinDistance"
        => LET a == call.args[1]
               b == call.args[2]
           IN /\ call.result = <<EditDistance(a, b)>>
              /\ a = b => call.result = <<0>>
              /\ levenshteinDistance(b, a) = call.result[1]
              /\ (a = <<>>) => call.result = <<Len(b)>>
              /\ (b = <<>>) => call.result = <<Len(a)>>
    /\ levenshteinDistance(Kitten, Sitting) = 3

\* "aba" to "bab" takes two edits: drop the first byte, append one
C17_Witness ==
    /\ call.fn = "levenshteinDistance"
    /\ call.args = <<(<<"a", "b", "a">>), (<<"b", "a", "b">>)>>
    /\ call.result = <<2>>

(***************************************************************************)
(* C15  FindClosestSubCommand(name) selects the registered name at the     *)
(* least edit distance from name, the lexicographically smallest of those  *)
(* at that distance, whatever the order in which the registry is ranged    *)
(* over; it returns that name with the command registered under it when    *)
(* the name is not empty and the distance is less than its length plus 1,  *)
(* and ("", nil, false) otherwise or when the registry is empty.  "hlp"    *)
(* among help, list and status returns "help".                             *)
(***************************************************************************)
\* the registered name closest to name, ties to the smallest name
Closest(reg, name) ==
    CHOOSE n \in DOMAIN reg :
        \A m \in DOMAIN reg \ {n} :
            \/ levenshteinDistance(name, n) < levenshteinDistance(name, m)
            \/ /\ levenshteinDistance(name, n) = levenshteinDistance(name, m)
               /\ StrLess(n, m)

C15_ClosestSubCommand ==
    call.fn = "FindClosestSubCommand"
        => LET reg == call.args[1]
               name == call.args[3]
               r == call.result[1]
           IN /\ DOMAIN reg = {} => r = NoMatch
              /\ DOMAIN reg # {}
                   => LET best == Closest(reg, name)
                      IN IF best # <<>> /\ levenshteinDistance(name, best) < Len(best) + 1
                         THEN r = [name |-> best, command |-> reg[best].command,
                                   ok |-> TRUE]
                         ELSE r = NoMatch
              /\ (DOMAIN reg = {Help, List, Status} /\ name = Hlp) => r.name = Help

\* "hlp" among help, list and status, ranged over with help last
C15_Witness ==
    /\ call.fn = "FindClosestSubCommand"
    /\ DOMAIN call.args[1] = {Help, List, Status}
    /\ call.args[2] = <<Status, List, Help>>
    /\ call.args[3] = Hlp
    /\ call.result = <<[name |-> Help, command |-> <<"command", Help>>, ok |-> TRUE]>>

MaxContent == 7
ContentBytes == {"a", "=", "#", " ", "\n"}
WhiteSpace == {" ", "\n", "\t", "\r"}

Contents == UNION {[1..n -> ContentBytes] : n \in 0..MaxContent}

\* strings.Split(s, "\n"): the pieces between the newlines, empty ones kept
RECURSIVE SplitNewline(_, _, _)
SplitNewline(s, piece, pieces) ==
    IF s = <<>> THEN Append(pieces, piece)
    ELSE IF Head(s) = "\n" THEN SplitNewline(Tail(s), <<>>, Append(pieces, piece))
    ELSE SplitNewline(Tail(s), Append(piece, Head(s)), pieces)

RECURSIVE TrimLeft(_)
TrimLeft(s) ==
    IF s # <<>> /\ Head(s) \in WhiteSpace THEN TrimLeft(Tail(s)) ELSE s

RECURSIVE TrimRight(_)
TrimRight(s) ==
    IF s # <<>> /\ s[Len(s)] \in WhiteSpace THEN TrimRight(SubSeq(s, 1, Len(s) - 1))
    ELSE s

\* strings.TrimSpace
TrimSpace(s) == TrimRight(TrimLeft(s))

\* strings.HasPrefix(line, "#")
HasPrefix(line, ch) == line # <<>> /\ Head(line) = ch

\* strings.SplitN(line, "=", 2): at most two parts, split at the first "="
SplitN2(line) ==
    LET at == {i \in 1..Len(line) : line[i] = "="}
    IN IF at = {} THEN <<line>>
       ELSE LET p == CHOOSE i \in at : \A k \in at : i <= k
            IN <<SubSeq(line, 1, p - 1), SubSeq(line, p + 1, Len(line))>>

\* strings.Fields: the maximal runs of non-space bytes
RECURSIVE FieldsFrom(_, _, _)
FieldsFrom(s, field, fields) ==
    IF s = <<>> THEN (IF field = <<>> THEN fields ELSE Append(fields, field))
    ELSE IF Head(s) \in WhiteSpace
         THEN FieldsFrom(Tail(s), <<>>,
                         IF field = <<>> THEN fields ELSE Append(fields, field))
         ELSE FieldsFrom(Tail(s), Append(field, Head(s)), fields)

Fields(s) == FieldsFrom(s, <<>>, <<>>)

\* result := map[string][]string{}
EmptyAliases == [n \in {} |-> <<>>]

\* an assignment that leaves a name already set alone
SetIfAbsent(result, name, fields) ==
    IF name \in DOMAIN result THEN result
    ELSE [n \in DOMAIN result \cup {name} |-> IF n = name THEN fields ELSE result[n]]

\* result[name] = fields
SetAlias(result, name, fields) ==
    [n \in DOMAIN result \cup {name} |-> IF n = name THEN fields ELSE result[n]]

\* for i, line := range lines
RECURSIVE ParseLines(_, _, _)
ParseLines(lines, i, result) ==
    IF i > Len(lines) THEN result
    ELSE LET line == TrimSpace(lines[i])
             parts == SplitN2(line)
         IN IF line = <<>> \/ HasPrefix(line, "#") THEN ParseLines(lines, i + 1, result)
            ELSE IF Len(parts) # 2 THEN ParseLines(lines, i + 1, result)
            ELSE LET name == TrimSpace(parts[1])
                     value == TrimSpace(parts[2])
                 IN IF name = <<>> THEN ParseLines(lines, i + 1, result)
                    ELSE IF value = <<>> THEN ParseLines(lines, i + 1, result)
                    ELSE ParseLines(lines, i + 1, SetAlias(result, name, Fields(value)))

\* ParseAliasFile(aliasFilename) where ioutil.ReadFile fails (readable false)
\* or returns content
ParseAliasFileOf(aliasFilename, readable, content) ==
    IF aliasFilename = "" THEN EmptyAliases
    ELSE IF ~readable THEN EmptyAliases
    ELSE ParseLines(SplitNewline(content, <<>>, <<>>), 1, EmptyAliases)

CallParseAliasFile ==
    /\ call = NoCall
    /\ \E aliasFilename \in {"", "aliases"}, readable \in BOOLEAN :
          \E content \in IF aliasFilename # "" /\ readable THEN Contents ELSE {<<>>} :
             call' = [fn |-> "ParseAliasFile",
                      args |-> <<aliasFilename, readable, content>>,
                      result |-> <<ParseAliasFileOf(aliasFilename, readable, content)>>]
    /\ UNCHANGED <<params, subcmds, checks, userAliases, regs, lastReg, pc, cmdline,
                   st, err, trace, exitCode>>

AliasNext ==
    \/ CallParseAliasFile

AliasSpec == LibInit /\ [][AliasNext]_vars

(***************************************************************************)
(* C18  ParseAliasFile always returns a table.  With no file name or an    *)
(* unreadable file the table is empty.  Otherwise a name is in the table   *)
(* exactly when some line of the file defines it, and its value is that of *)
(* the last such line; a line defines a name when, trimmed, it is not      *)
(* blank, does not start with '#', holds an '=', and has a non-empty       *)
(* trimmed text before its first '=' (the name) and a non-blank text after *)
(* it, whose whitespace-separated tokens are the value.  Every entry has a *)
(* non-empty name and at least one token.                                  *)
(***************************************************************************)
\* the lines of a file: its maximal runs of bytes other than newline
LinesOf(content) ==
    LET breaks == {0, Len(content) + 1} \cup {i \in 1..Len(content) : content[i] = "\n"}
        starts == breaks \ {Len(content) + 1}
        NextBreak(b) == CHOOSE e \in breaks : e > b /\ \A k \in breaks : k > b => e <= k
        Nth(n) == CHOOSE b \in starts : Cardinality({k \in starts : k < b}) = n - 1
    IN [n \in 1..Cardinality(starts) |->
            SubSeq(content, Nth(n) + 1, NextBreak(Nth(n)) - 1)]

\* the line, as written, defines the name
Defines(raw, name) ==
    LET line == TrimSpace(raw)
    IN /\ line # <<>>
       /\ line[1] # "#"
       /\ \E p \in 1..Len(line) :
             /\ line[p] = "="
             /\ \A k \in 1..(p - 1) : line[k] # "="
             /\ TrimSpace(SubSeq(line, 1, p - 1)) = name
             /\ name # <<>>
             /\ TrimSpace(SubSeq(line, p + 1, Len(line))) # <<>>

\* the text after the first '=' of a line
ValueOf(raw) ==
    LET line == TrimSpace(raw)
        p == CHOOSE i \in 1..Len(line) :
                 line[i] = "=" /\ \A k \in 1..(i - 1) : line[k] # "="
    IN SubSeq(line, p + 1, Len(line))

\* the tokens are the non-space bytes of the text, in order, none empty or
\* holding a space
IsTokenised(fields, text) ==
    /\ \A i \in DOMAIN fields :
          fields[i] # <<>> /\ \A k \in DOMAIN fields[i] : fields[i][k] \notin WhiteSpace
    /\ LET Joined[i \in 0..Len(fields)] ==
               IF i = 0 THEN <<>> ELSE Joined[i - 1] \o fields[i]
       IN Joined[Len(fields)] = SelectSeq(text, LAMBDA ch : ch \notin WhiteSpace)
    /\ Len(fields) = Cardinality({i \in 1..Len(text) :
                          /\ text[i] \notin WhiteSpace
                          /\ (i = 1 \/ text[i - 1] \in WhiteSpace)})

C18_AliasTable ==
    call.fn = "ParseAliasFile"
        => LET aliasFilename == call.args[1]
               readable == call.args[2]
               content == call.args[3]
               table == call.result[1]
               lines == LinesOf(content)
           IN /\ (aliasFilename = "" \/ ~readable) => table = EmptyAliases
              /\ (aliasFilename # "" /\ readable)
                   => /\ \A n \in DOMAIN table : \E i \in DOMAIN lines : Defines(lines[i], n)
                      /\ \A i \in DOMAIN lines :
                            \A n \in {TrimSpace(SubSeq(lines[i], 1, p)) :
                                          p \in 0..Len(lines[i])} :
                               (/\ Defines(lines[i], n)
                                /\ \A k \in DOMAIN lines : k > i => ~Defines(lines[k], n))
                                   => /\ n \in DOMAIN table
                                      /\ IsTokenised(table[n], ValueOf(lines[i]))
              /\ \A n \in DOMAIN table : n # <<>> /\ Len(table[n]) >= 1

\* a comment, then "a" defined twice: the second definition is kept
C18_Witness ==
    /\ call.fn = "ParseAliasFile"
    /\ call.args = <<"aliases", TRUE, <<"a", "=", "a", "\n", "a", "=", "=">> >>
    /\ call.result = <<[n \in {<<"a">>} |-> << <<"=">> >>]>>

(***************************************************************************)
(* The documentation command.  Its file operations succeed or fail as the  *)
(* file system decides: the one that fails, if any, is an input of the     *)
(* call.  A file handle is named by the path it was opened on.             *)
(***************************************************************************)
OutDir == "docs"
IdsFile == "ids"
DocumentationFileName == "documentation.md"
DocumentationIndexFileName == "index.md"
Stdout == <<"stdout">>

NoFault == [op |-> "", target |-> <<>>]

\* fmt.Sprintf("%s.md", strings.Join(commandSeq[1:], "_")) under the folder
TargetOf(folder, commandSeq) == <<folder>> \o Tail(commandSeq)

\* the names of a registry, in the order the range visits them
RECURSIVE SeqOfSet(_)
SeqOfSet(S) ==
    IF S = {} THEN <<>>
    ELSE LET x == CHOOSE y \in S : TRUE IN <<x>> \o SeqOfSet(S \ {x})

\* the files the command can be asked to write
DocTargets ==
    {<<OutDir, DocumentationFileName>>, <<OutDir, DocumentationIndexFileName>>}
        \cup {<<OutDir, n>> : n \in {"help", "test", "flip", "flap", Sub}}
        \cup {<<OutDir, Sub, n>> : n \in {"help", "foo"}}

Faults ==
    {NoFault}
        \cup {[op |-> o, target |-> t] : o \in {"create", "write"}, t \in DocTargets}
        \cup {[op |-> "write", target |-> Stdout],
              [op |-> "stat", target |-> <<OutDir>>],
              [op |-> "mkdir", target |-> <<OutDir>>],
              [op |-> "open", target |-> <<IdsFile>>],
              [op |-> "scan", target |-> <<IdsFile>>]}

\* the operation on the target is the one that fails
Fails(d, op, target) == d.fault = [op |-> op, target |-> target]

\* the files open, the error returned (none yet) and the files closed
IOStart == [open |-> {}, closed |-> {}, err |-> NoErr]
Opened(io, f) == [io EXCEPT !.open = @ \cup {f}]
\* a return that leaves the file as it is
ReturnOnly(io, f, e) == [io EXCEPT !.err = e]
\* f.Close()
Closed(io, f) == [io EXCEPT !.open = @ \ {f}, !.closed = @ \cup {f}]
\* return err
Failed(io, e) == [io EXCEPT !.err = e]

\* writeSections: every section is written to the same writer
writeSections(d, writer, io) ==
    IF Fails(d, "write", writer) THEN Failed(io, <<"write", writer>>) ELSE io

dumpEntries(env, d, writer, io) ==
    IF Cardinality(DOMAIN env.subcmds[Top]) = 0 THEN io
    ELSE IF ~d.noIndex /\ Fails(d, "write", writer) THEN Failed(io, <<"write", writer>>)
    ELSE writeSections(d, writer, io)

\* with defer f.Close() once the file is created
dumpOneFile(env, d) ==
    IF d.out # ""
    THEN IF Fails(d, "stat", <<d.out>>) THEN Failed(IOStart, <<"stat", <<d.out>> >>)
         ELSE LET target == <<d.out, DocumentationFileName>>
              IN IF Fails(d, "create", target) THEN Failed(IOStart, <<"create", target>>)
                 ELSE Closed(dumpEntries(env, d, target, Opened(IOStart, target)), target)
    ELSE dumpEntries(env, d, Stdout, IOStart)

\* with defer f.Close() once the file is open
readFileIds(d, path, io) ==
    IF Fails(d, "open", <<path>>) THEN Failed(io, <<"open", <<path>> >>)
    ELSE IF Fails(d, "scan", <<path>>)
         THEN Closed(Failed(Opened(io, <<path>>), <<"malformed line">>), <<path>>)
         ELSE Closed(Opened(io, <<path>>), <<path>>)

\* for name, ref := range c.super.subcmds, from the names still to visit
RECURSIVE writeDocs(_, _, _, _, _, _, _)
writeDocs(env, d, c, names, superCommands, printDefaultCommands, io) ==
    IF names = <<>> THEN io
    ELSE LET name == Head(names)
             ref == env.subcmds[c][name]
             commandSeq == Append(superCommands, name)
             target == TargetOf(d.out, commandSeq)
         IN IF ~printDefaultCommands /\ name \in d.defaults
            THEN writeDocs(env, d, c, Tail(names), superCommands,
                           printDefaultCommands, io)
            ELSE IF Fails(d, "create", target) THEN Failed(io, <<"create", target>>)
            ELSE IF Fails(d, "write", target)
                 THEN ReturnOnly(Opened(io, target), target, <<"write", target>>)
            ELSE LET io1 == Closed(Opened(io, target), target)
                     io2 == IF IsSuperCommand(ref.command)
                            THEN writeDocs(env, d, ref.command,
                                           SeqOfSet(DOMAIN env.subcmds[ref.command]),
                                           commandSeq, FALSE, io1)
                            ELSE io1
                 IN IF io2.err # NoErr THEN io2
                    ELSE writeDocs(env, d, c, Tail(names), superCommands,
                                   printDefaultCommands, io2)

dumpSeveralFiles(env, d) ==
    IF Cardinality(DOMAIN env.subcmds[Top]) = 0 THEN IOStart
    ELSE IF Fails(d, "mkdir", <<d.out>>) THEN Failed(IOStart, <<"mkdir", <<d.out>> >>)
    ELSE LET io1 == IF d.idsPath # "" THEN readFileIds(d, d.idsPath, IOStart)
                    ELSE IOStart
             target == <<d.out, DocumentationIndexFileName>>
             io2 == IF d.noIndex THEN io1
                    ELSE IF Fails(d, "create", target)
                         THEN Failed(io1, <<"create", target>>)
                    ELSE IF Fails(d, "write", target)
                         THEN ReturnOnly(Opened(io1, target), target, <<"write", target>>)
                    ELSE Closed(Opened(io1, target), target)
         IN IF io1.err # NoErr THEN io1
            ELSE IF io2.err # NoErr THEN io2
            ELSE writeDocs(env, d, Top, SeqOfSet(DOMAIN env.subcmds[Top]), <<Top>>,
                           TRUE, io2)

\* documentationCommand.Run
documentationRun(env, d) ==
    IF d.split
    THEN IF d.out = "" THEN Failed(IOStart, <<"you must set the output folder">>)
         ELSE dumpSeveralFiles(env, d)
    ELSE dumpOneFile(env, d)

\* the flags of the command, the names isDefaultCommand reports, and the
\* operation that fails
DocArgs ==
    [out : {"", OutDir}, noIndex : BOOLEAN, split : BOOLEAN, idsPath : {"", IdsFile},
     defaults : {{}, {"help", "version", "documentation"}}, fault : Faults]

CallDocumentation ==
    /\ call = NoCall
    /\ pc = "setup"
    /\ \E d \in DocArgs :
          call' = [fn |-> "documentation", args |-> <<d, subcmds>>,
                   result |-> <<documentationRun(Env, d)>>]
    /\ UNCHANGED <<params, subcmds, checks, userAliases, regs, lastReg, pc, cmdline,
                   st, err, trace, exitCode>>

\* the registry is built, then documented
DocRegister == call = NoCall /\ DoRegister

DocNext ==
    \/ DocRegister
    \/ CallDocumentation

DocSpec == LibInit /\ [][DocNext]_vars

(***************************************************************************)
(* C19  Every file opened to write the markdown documentation (the single  *)
(* file, the index, the file of each command) or to read a file is closed  *)
(* when the operation returns, whether it returns an error or not.         *)
(* As written, dumpSeveralFiles and writeDocs return the error of a failed *)
(* write without closing the file just created.                            *)
(***************************************************************************)
C19_AsStated ==
    call.fn = "documentation" => call.result[1].open = {}

\* --split --out docs with "test" registered: the write of docs/test fails
\* and the file stays open
C19_Witness ==
    /\ call.fn = "documentation"
    /\ call.args[1].split /\ call.args[1].out = OutDir
    /\ "test" \in DOMAIN call.args[2][Top]
    /\ call.args[1].fault = [op |-> "write", target |-> <<OutDir, "test">>]
    /\ call.result[1].err = <<"write", <<OutDir, "test">> >>
    /\ call.result[1].open = {<<OutDir, "test">>}

(***************************************************************************)
(* The flags of the levels: a SuperCommand with or without logging,        *)
(* version and alias file, the version flag command, the simple command    *)
(* with its alias and the nested SuperCommand registered in it, and Main   *)
(* on command lines that put a flag before or after a name.                *)
(***************************************************************************)
FlagParamSets ==
    [usagePrefix : {""}, version : {"", "1.0"}, aliasFile : {"", "aliases"},
     missingCallback : {FALSE}, log : BOOLEAN, notifyRun : {FALSE}, purpose : {""}]

FlagRegistrable == {VersionFlagCmd, "flip", Sub}

FlagLineTokens ==
    {"test", "flap", Sub, "abc.123", "--debug", "--help", "--description", "--version",
     "--no-alias", "--version=abc.123"}

FlagLines ==
    {<<x>> : x \in FlagLineTokens}
        \cup {<<x, y>> : x, y \in FlagLineTokens}
        \cup UNION {{<<Sub, "foo", f>>, <<Sub, f, "foo">>, <<f, Sub, "foo">>} :
                       f \in FlagLineTokens \cap FlagTokens}

FlagRegister ==
    /\ pc = "setup" /\ regs < MaxRegs
    /\ \E subcmd \in FlagRegistrable :
        Registered("Register", <<subcmd>>, Nil, Register(subcmds, Top, subcmd))

FlagParse == MainParseOf(FlagLines)

FlagNext ==
    \/ FlagRegister
    \/ SetupDone
    \/ FlagParse
    \/ MainInit
    \/ MainRun

FlagSpec == InitWith(FlagParamSets) /\ [][FlagNext]_vars

(***************************************************************************)
(* C20  Flag layering.  A common flag of the SuperCommand (logging when    *)
(* configured, --help, -h, --description) is accepted and takes effect     *)
(* both before and after the name of a leaf subcommand.  With a nested     *)
(* SuperCommand, a common flag before the first non-flag token after its   *)
(* name is consumed by the parent, and one after that token is left to the *)
(* nested SuperCommand's own flag set.  --version and --no-alias are not   *)
(* defined after a subcommand's name, and a leaf that defines a string     *)
(* flag named version receives the value given after its name, runs and    *)
(* writes nothing.                                                         *)
(***************************************************************************)
\* the name is registered for a leaf command and no user alias replaces it
LeafAt(n) ==
    /\ n \in DOMAIN subcmds[Top]
    /\ ~IsSuperCommand(subcmds[Top][n].command)
    /\ n \notin DOMAIN userAliases[Top]

\* the variable the flag is bound to in SuperCommand c is set
IsSet(f, c) ==
    CASE f = "--debug" -> st.debug
      [] f \in {"--help", "-h"} -> st.showHelp[c]
      [] f = "--description" -> st.showDescription[c]
      [] f = "--version" -> st.showVersion[c]
      [] f = "--no-alias" -> st.noAlias[c]
      [] OTHER -> FALSE

NotDefined(f) == err = <<"flag provided but not defined:", f>>

\* the flags SetFlags adds after those of SetCommonFlags
TopLevelOnly ==
    (IF params[Top].version # "" THEN {"--version"} ELSE {})
        \cup (IF params[Top].aliasFile # "" THEN {"--no-alias"} ELSE {})

C20_FlagLayering ==
    InitDone =>
        /\ \A n \in {"test", "flap"}, f \in CommonFlags(params[Top]) :
              (LeafAt(n) /\ cmdline \in {<<f, n>>, <<n, f>>})
                  => IsSet(f, Top) /\ ~NotDefined(f)
        /\ \A f \in CommonFlags(params[Top]) :
              (Sub \in DOMAIN subcmds[Top])
                  => /\ cmdline = <<Sub, f, "foo">>
                          => /\ IsSet(f, Top) /\ ~NotDefined(f)
                             /\ f # "--debug" => ~IsSet(f, Sub)
                     /\ cmdline = <<Sub, "foo", f>>
                          => IF f \in CommonFlags(params[Sub])
                             THEN IsSet(f, Sub) /\ ~IsSet(f, Top)
                             ELSE NotDefined(f) /\ ~IsSet(f, Top)
        /\ \A f \in TopLevelOnly :
              /\ (LeafAt("flap") /\ cmdline = <<"flap", f>>)
                    => NotDefined(f) /\ ~st.showVersion[Top] /\ ~st.noAlias[Top]
              /\ (Sub \in DOMAIN subcmds[Top] /\ cmdline = <<Sub, "foo", f>>)
                    => NotDefined(f) /\ ~st.showVersion[Top] /\ ~st.noAlias[Top]
        /\ (/\ LeafAt("test")
            /\ subcmds[Top]["test"].command = VersionFlagCmd
            /\ cmdline = <<"test", "--version=abc.123">>)
              => /\ st.version = "abc.123"
                 /\ ~st.showVersion[Top]
                 /\ pc # "initFailed"
                 /\ RunDone => err = NoErr /\ Written = <<>>

\* jujutest test --version=abc.123, with a version configured
C20_Witness ==
    /\ RunDone
    /\ params[Top].version # ""
    /\ LeafAt("test")
    /\ subcmds[Top]["test"].command = VersionFlagCmd
    /\ cmdline = <<"test", "--version=abc.123">>
    /\ st.version = "abc.123"
    /\ ~st.showVersion[Top]
    /\ Written = <<>>
    /\ err = NoErr

(***************************************************************************)
(* Checks whose answers change.  A DeprecationCheck is an object of the    *)
(* program: between the registrations and Main its answers may become      *)
(* others.                                                                 *)
(***************************************************************************)
\* the names describeCommands lists for SuperCommand c
describeCommands(env, ck, c) ==
    {name \in DOMAIN env.subcmds[c] : ~Deprecated(env.subcmds[c][name], ck).deprecated}

\* what the checks report later: the opposite, and another replacement
CheckLater ==
    [k \in CheckIds |->
        [deprecated |-> ~CheckInit[k].deprecated,
         replacement |-> "newer",
         obsolete |-> ~CheckInit[k].obsolete]]

ChecksChange ==
    /\ pc = "ready"
    /\ checks = CheckInit
    /\ checks' = CheckLater
    /\ UNCHANGED <<params, subcmds, userAliases, regs, lastReg, pc, cmdline, st, err,
                   trace, exitCode, call>>

DepLines == {<<"x">>, <<"test">>, <<"flap">>, <<"flip">>, <<"help">>, <<"x", "arg">>}

DepParse == MainParseOf(DepLines)

DepNext ==
    \/ DoRegister
    \/ DoRegisterDeprecated
    \/ DoRegisterAlias
    \/ SetupDone
    \/ ChecksChange
    \/ DepParse
    \/ MainInit
    \/ MainRun

DepSpec == LibInit /\ [][DepNext]_vars

(***************************************************************************)
(* C21  As stated: whether dispatching a name writes a deprecation warning *)
(* and whether the name is listed depend only on what its check reported   *)
(* when the name was registered.                                           *)
(***************************************************************************)
\* Run has returned for a name resolved to its reference registered with a check
DispatchedWithCheck ==
    /\ RunDone
    /\ Resolving
    /\ ~st.showHelp[Top]
    /\ Requested \in DOMAIN subcmds[Top]
    /\ subcmds[Top][Requested].check # Nil

C21_AsStated ==
    /\ DispatchedWithCheck
        => (Warnings # {} <=> CheckInit[subcmds[Top][Requested].check].deprecated)
    /\ \A name \in DOMAIN subcmds[Top] :
          subcmds[Top][name].check # Nil
              => (name \in describeCommands(Env, checks, Top)
                      <=> ~CheckInit[subcmds[Top][name].check].deprecated)

(***************************************************************************)
(* C21 (as amended)  Only obsolescence is evaluated at registration: a     *)
(* reference is in the registry only if its check did not report obsolete  *)
(* then, it stays registered and its handler runs whatever the check       *)
(* reports later, and a change of the checks changes no registry.  The     *)
(* deprecation is evaluated at each use: dispatching the name writes the   *)
(* warning, with the replacement, exactly when the check reports           *)
(* deprecated at the time of Run, and the name is listed exactly when the  *)
(* check does not report deprecated at the time of the listing.            *)
(***************************************************************************)
C21_EvaluatedAtUse ==
    /\ \A name \in DOMAIN subcmds[Top] :
          subcmds[Top][name].check # Nil
              => /\ ~CheckInit[subcmds[Top][name].check].obsolete
                 /\ name \in describeCommands(Env, checks, Top)
                       <=> ~checks[subcmds[Top][name].check].deprecated
    /\ DispatchedWithCheck
        => LET k == subcmds[Top][Requested].check
           IN /\ HandlerRuns # {}
              /\ Warnings # {} <=> checks[k].deprecated
              /\ \A i \in Warnings :
                    trace[i].what = <<Requested, checks[k].replacement>>

\* "x" was registered as an alias with the check that reported deprecated; the
\* check reports otherwise when x is dispatched, and no warning is written
C21_Witness ==
    /\ RunDone
    /\ cmdline = <<"x">>
    /\ "x" \in DOMAIN subcmds[Top]
    /\ subcmds[Top]["x"].check = "dep"
    /\ checks = CheckLater
    /\ Warnings = {}
    /\ HandlerRuns # {}
    /\ "x" \in describeCommands(Env, checks, Top)

(***************************************************************************)
(* C22  RegisterSuperAlias(name, super, forName, check).  With a check     *)
(* that reports obsolete the call changes nothing and does not panic.      *)
(* Otherwise it panics, the registry unchanged, if super is not            *)
(* registered, is not a SuperCommand, or has no subcommand forName; and if *)
(* none of these and name is free, name is bound to the command registered *)
(* as forName inside super.  Then `name args` initialises and runs that    *)
(* handler, and for positional args it is the same handler with the same   *)
(* args as `super forName args`.                                           *)
(***************************************************************************)
C22_Registration ==
    RegStepOf("RegisterSuperAlias") =>
        LET name == lastReg'.a[1]
            super == lastReg'.a[2]
            forName == lastReg'.a[3]
            panic == lastReg'.panic
        IN  IF ObsoleteCheck(lastReg'.check)
            THEN subcmds' = subcmds /\ panic = NoPanic
            ELSE IF super \notin DOMAIN subcmds[Top]
            THEN subcmds' = subcmds /\ panic = <<"not found when registering alias", super>>
            ELSE IF ~IsSuperCommand(subcmds[Top][super].command)
            THEN subcmds' = subcmds /\ panic = <<"is not a SuperCommand", super>>
            ELSE IF forName \notin DOMAIN subcmds[subcmds[Top][super].command]
            THEN subcmds' = subcmds
                 /\ panic = <<"not found as a command in", forName, super>>
            ELSE name \notin DOMAIN subcmds[Top]
                 => /\ panic = NoPanic
                    /\ EntriesKept
                    /\ DOMAIN subcmds'[Top] = DOMAIN subcmds[Top] \cup {name}
                    /\ subcmds'[Top][name].command
                          = subcmds[subcmds[Top][super].command][forName].command
                    /\ subcmds'[Top][name].command \in Leaves

\* the Init and Run of the handlers, in order
Handled(t) == SelectSeq(t, LAMBDA e : e.ev \in {"Init", "Run"} /\ e.who \in Leaves)

\* Main on the args, from the parse of the top-level flags on
InitThenRun(args, outcome) ==
    LET w == SuperInit(Env, W0, Top, args)
    IN IF w.err # NoErr THEN w ELSE SuperRun(Env, checks, w, Top, outcome)

\* the name given is one bound by RegisterSuperAlias
SuperAliasRequested ==
    /\ Resolving
    /\ ~Substituted
    /\ st.args[1] \in DOMAIN subcmds[Top]
    /\ Len(subcmds[Top][st.args[1]].alias) = 2

C22_Dispatch ==
    (RunDone /\ SuperAliasRequested /\ ~st.showHelp[Top])
        => LET path == subcmds[Top][st.args[1]].alias
               positional == Range(Tail(st.args)) \cap FlagTokens = {}
           IN /\ \E o \in Outcomes :
                    /\ Len(Handled(trace)) = 2
                    /\ Handled(trace)[1].ev = "Init" /\ Handled(trace)[1].who = "foo"
                    /\ Handled(trace)[2] = Ev("Run", "foo", <<o>>)
                    /\ positional
                          => /\ Handled(trace)[1].what = Tail(st.args)
                             /\ Handled(trace)
                                  = Handled(InitThenRun(path \o Tail(st.args), o).trace)
              /\ positional
                    => \A o \in Outcomes :
                          Handled(InitThenRun(st.args, o).trace)
                              = Handled(InitThenRun(path \o Tail(st.args), o).trace)

C22_SuperAlias == []C22_Dispatch /\ [][C22_Registration]_vars

\* `x arg` has run the handler registered as foo inside bar, with <<"arg">>
C22_Witness ==
    /\ RunDone
    /\ cmdline = <<"x", "arg">>
    /\ SuperAliasRequested
    /\ subcmds[Top]["x"].alias = <<Sub, "foo">>
    /\ Handled(trace) = <<Ev("Init", "foo", <<"arg">>), Ev("Run", "foo", <<"nil">>)>>

(***************************************************************************)
(* StringMap (stringmap.go): a flag value filled by name=value pairs.      *)
(***************************************************************************)
MaxPair == 3
MaxSets == 2
\* the strings given to Set
Pairs == UNION {[1..n -> {"a", "="}] : n \in 0..MaxPair}

\* *m.Mapping: a nil map, or a map
NilMap == [isNil |-> TRUE, m |-> <<>>]
EmptyMap == [isNil |-> FALSE, m |-> <<>>]

\* a Set whose last value wins
SetOverwrites(mapping, s) ==
    LET made == IF mapping.isNil THEN EmptyMap ELSE mapping
        vals == SplitN2(s)
    IN IF Len(vals) # 2
       THEN [mapping |-> made, err |-> <<"badly formatted name value pair: ", s>>]
       ELSE [mapping |-> [isNil |-> FALSE,
                          m |-> [n \in DOMAIN made.m \cup {vals[1]} |->
                                    IF n = vals[1] THEN vals[2] ELSE made.m[n]]],
             err |-> NoErr]

\* StringMap.Set
Set(mapping, s) ==
    LET made == IF mapping.isNil THEN EmptyMap ELSE mapping
        vals == SplitN2(s)
    IN IF Len(vals) # 2
       THEN [mapping |-> made, err |-> <<"badly formatted name value pair: ", s>>]
       ELSE LET name == vals[1]
                value == vals[2]
            IN IF name \in DOMAIN made.m
               THEN [mapping |-> made, err |-> <<"duplicate name specified:", name>>]
               ELSE [mapping |-> [isNil |-> FALSE,
                                  m |-> [n \in DOMAIN made.m \cup {name} |->
                                            IF n = name THEN value ELSE made.m[n]]],
                     err |-> NoErr]

\* StringMap{&values}: the program makes a StringMap of a nil or an empty map
NewStringMap ==
    /\ call = NoCall
    /\ \E mapping \in {NilMap, EmptyMap} :
          call' = [fn |-> "StringMap", args |-> <<mapping, <<>>>>,
                   result |-> <<mapping, <<>>>>]
    /\ UNCHANGED <<params, subcmds, checks, userAliases, regs, lastReg, pc, cmdline,
                   st, err, trace, exitCode>>

\* one more call of Set: call.args holds the first map and the strings given
\* so far, call.result the map and the errors returned so far
CallSet ==
    /\ call.fn = "StringMap"
    /\ Len(call.args[2]) < MaxSets
    /\ \E s \in Pairs :
          LET r == Set(call.result[1], s)
          IN call' = [call EXCEPT !.args[2] = Append(@, s),
                                  !.result = <<r.mapping, Append(call.result[2], r.err)>>]
    /\ UNCHANGED <<params, subcmds, checks, userAliases, regs, lastReg, pc, cmdline,
                   st, err, trace, exitCode>>

MapNext ==
    \/ NewStringMap
    \/ CallSet

MapSpec == LibInit /\ [][MapNext]_vars

(***************************************************************************)
(* C23  After any sequence of Set calls on a StringMap, the mapping holds, *)
(* for each name, the value of the first Set of a well-formed pair with    *)
(* that name, and nothing else.  The Set of a string with no '=' returns   *)
(* the 'badly formatted name value pair' error and the Set of a name       *)
(* already present the duplicate-name error, both leaving the entries as   *)
(* they were; any other Set returns nil and adds the pair, split at the    *)
(* first '=', to the map, which is made if it was nil.                     *)
(***************************************************************************)
\* the strings given to Set so far, the errors returned, the map now
SetsDone == call.args[2]
SetErrors == call.result[2]
MappingNow == call.result[1]

WellFormed(s) == \E i \in 1..Len(s) : s[i] = "="
FirstEq(s) == CHOOSE i \in 1..Len(s) : s[i] = "=" /\ \A j \in 1..(i - 1) : s[j] # "="
PairName(s) == SubSeq(s, 1, FirstEq(s) - 1)
PairValue(s) == SubSeq(s, FirstEq(s) + 1, Len(s))
\* the calls that gave a well-formed pair of the name
SetsOf(name) == {i \in 1..Len(SetsDone) : WellFormed(SetsDone[i]) /\ PairName(SetsDone[i]) = name}

C23_StringMap ==
    call.fn = "StringMap" =>
        /\ Len(SetErrors) = Len(SetsDone)
        /\ DOMAIN MappingNow.m =
              {PairName(SetsDone[i]) : i \in {j \in 1..Len(SetsDone) : WellFormed(SetsDone[j])}}
        /\ \A name \in DOMAIN MappingNow.m :
              LET first == CHOOSE i \in SetsOf(name) : \A j \in SetsOf(name) : i <= j
              IN /\ MappingNow.m[name] = PairValue(SetsDone[first])
                 /\ SetErrors[first] = NoErr
        /\ \A i \in 1..Len(SetsDone) :
              IF ~WellFormed(SetsDone[i])
              THEN SetErrors[i] = <<"badly formatted name value pair: ", SetsDone[i]>>
              ELSE IF \E j \in SetsOf(PairName(SetsDone[i])) : j < i
              THEN SetErrors[i] = <<"duplicate name specified:", PairName(SetsDone[i])>>
              ELSE SetErrors[i] = NoErr
        /\ MappingNow.isNil <=> (call.args[1].isNil /\ SetsDone = <<>>)

\* a=a was set on a nil map, then a== was refused as a duplicate: the map
\* holds a=a
C23_Witness ==
    /\ call.fn = "StringMap"
    /\ call.args[1] = NilMap
    /\ SetsDone = <<<<"a", "=", "a">>, <<"a", "=", "=">>>>
    /\ SetErrors[1] = NoErr
    /\ SetErrors[2] = <<"duplicate name specified:", <<"a">>>>
    /\ MappingNow.m[<<"a">>] = <<"a">>

(***************************************************************************)
(* Run called by a program whatever Init did: a SuperCommand is a Command, *)
(* and its Init and Run are exported.                                      *)
(***************************************************************************)
MissingSubcommand == <<"Run: missing subcommand; Init failed or not called">>

\* c.Run(ctx) without an Init (pc = "ready"), or after the flags or Init failed
RunAnyway ==
    /\ pc \in {"ready", "parseFailed", "initFailed"}
    /\ \E outcome \in Outcomes :
        LET w == SuperRun(Env, checks, [World EXCEPT !.trace = <<>>], Top, outcome)
        IN /\ st' = w.st
           /\ err' = w.err
           /\ trace' = w.trace
           /\ call' = [fn |-> "Run", args |-> <<pc>>, result |-> <<w.panic>>]
           /\ pc' = "done"
    /\ UNCHANGED <<params, subcmds, checks, userAliases, regs, lastReg, cmdline,
                   exitCode>>

DirectLines ==
    {<<"test">>, <<"test", "arg">>, <<"test", "--unknown">>, <<"flip", "--unknown">>,
     <<"nope">>, <<"help", "nope">>, <<"--unknown">>, <<"--description">>,
     <<"--description", "arg">>, <<"bar", "nope">>, <<"bar", "foo", "--unknown">>}

DirectParse == MainParseOf(DirectLines)

DirectNext ==
    \/ DoRegister
    \/ SetupDone
    \/ DirectParse
    \/ MainInit
    \/ MainRun
    \/ RunAnyway

DirectSpec == LibInit /\ [][DirectNext]_vars

(***************************************************************************)
(* C24  As stated: when Run is called although Init was never called or    *)
(* returned an error, and --description is not set, Run calls no handler   *)
(* and panics with "Run: missing subcommand; Init failed or not called";   *)
(* and a handler's Run is called only after a successful Init.             *)
(***************************************************************************)
C24_AsStated ==
    /\ (call.fn = "Run" /\ ~st.showDescription[Top])
          => /\ HandlerRuns = {}
             /\ call.result = <<MissingSubcommand>>
    /\ (pc = "done" /\ HandlerRuns # {}) => call.fn # "Run"

\* Init(test --unknown) failed on the flag, and Run has called the Run of the
\* handler registered as test
C24_Witness ==
    /\ call.fn = "Run"
    /\ call.args = <<"initFailed">>
    /\ cmdline = <<"test", "--unknown">>
    /\ call.result = <<NoPanic>>
    /\ \E i \in HandlerRuns : trace[i].who = "test"

(***************************************************************************)
(* C25  As stated: a registration call that panics leaves the registry     *)
(* exactly as it was before the call.                                      *)
(***************************************************************************)
C25_AsStated ==
    [][(RegStep /\ lastReg'.panic # NoPanic) => subcmds' = subcmds]_vars

(***************************************************************************)
(* C25 (as amended)  A registration call that panics removes and changes   *)
(* no entry.  RegisterAlias and RegisterSuperAlias leave the registry as   *)
(* it was.  Register and RegisterDeprecated insert the names of the        *)
(* handler one by one, the primary name first: when the primary name is    *)
(* already registered the registry is as it was, and when an alias is, the *)
(* primary name and the aliases before that one stay inserted, bound to    *)
(* the handler.                                                            *)
(***************************************************************************)
C25_PanicLeaves ==
    [][(RegStep /\ lastReg'.panic # NoPanic) =>
        /\ EntriesKept
        /\ subcmds'[Sub] = subcmds[Sub]
        /\ IF lastReg'.op \in {"RegisterAlias", "RegisterSuperAlias"}
           THEN subcmds' = subcmds
           ELSE LET names == InsertAttempts(lastReg')
                    dup == Present(names)
                    first == CHOOSE i \in dup : \A j \in dup : i <= j
                    inserted == {names[i] : i \in 1..(first - 1)}
                IN /\ dup # {}
                   /\ DOMAIN subcmds'[Top] = DOMAIN subcmds[Top] \cup inserted
                   /\ \A n \in inserted : subcmds'[Top][n].command = lastReg'.a[1]
                   /\ first = 1 => subcmds' = subcmds]_vars

\* Register of flip has panicked on its alias flap, which RegisterAlias had bound
\* to help: flip is registered all the same
C25_Witness ==
    /\ lastReg.op = "Register"
    /\ lastReg.a = <<"flip">>
    /\ lastReg.panic = <<"command already registered", "flap">>
    /\ "flip" \in DOMAIN subcmds[Top]
    /\ subcmds[Top]["flip"].command = "flip"
    /\ subcmds[Top]["flap"].command # "flip"

(***************************************************************************)
(* Programs with an alias file whose aliases name each other or are named  *)
(* as registered commands are.                                             *)
(***************************************************************************)
ShadowParamSets ==
    [usagePrefix : {""}, version : {"1.0"}, aliasFile : {"aliases", "shadow"},
     missingCallback : {FALSE}, log : {FALSE}, notifyRun : {FALSE}, purpose : {""}]

ShadowLines ==
    {<<a>> \o t : a \in {"loop", "other", "def", "test", "firm", "ping", "pong",
                          "help", "flip", "flap"},
                  t \in {<<>>, <<"arg">>}}
        \cup {<<"--no-alias", a>> : a \in {"ping", "help", "test", "flip"}}

ShadowParse == MainParseOf(ShadowLines)

ShadowNext ==
    \/ DoRegister
    \/ SetupDone
    \/ ShadowParse
    \/ MainInit
    \/ MainRun

\* Main calls Init once the flags are parsed
ShadowSpec == InitWith(ShadowParamSets) /\ [][ShadowNext]_vars /\ WF_vars(MainInit)

(***************************************************************************)
(* C26  The substitution of a user alias is applied at most once in an     *)
(* Init: the first token of the expansion is looked up in the registry     *)
(* only, also when it is itself an alias (the same one or another).  When  *)
(* it is not registered, Init fails with unrecognized command naming it    *)
(* and no handler is initialised; when it is, the reference registered     *)
(* under it is selected.  Init returns for every alias table, also one     *)
(* whose aliases name themselves or each other.                            *)
(***************************************************************************)
C26_Once ==
    (InitDone /\ Substituted) =>
        LET expansion == userAliases[Top][st.args[1]]
            given == Tail(expansion) \o Tail(st.args)
        IN IF expansion[1] \notin DOMAIN subcmds[Top]
           THEN /\ pc = "initFailed"
                /\ err = <<"unrecognized command:", Top, expansion[1]>>
                /\ st.action[Top] = NoAction
                /\ InitEvents(trace) = <<>>
           ELSE /\ st.action[Top] = IF st.showHelp[Top] THEN subcmds[Top]["help"]
                                    ELSE subcmds[Top][expansion[1]]
                /\ (/\ Range(given) \cap FlagTokens = {}
                    /\ ~IsSuperCommand(st.action[Top].command))
                      => InitEvents(trace) = <<Ev("Init", st.action[Top].command, given)>>

C26_Terminates == (pc = "parsed") ~> InitDone

C26_AliasOnce == []C26_Once /\ C26_Terminates

\* ping = pong and pong = ping arg: Init([ping]) has failed on pong
C26_Witness ==
    /\ pc = "initFailed"
    /\ cmdline = <<"ping">>
    /\ {"ping", "pong"} \subseteq DOMAIN userAliases[Top]
    /\ userAliases[Top]["ping"] = <<"pong">>
    /\ userAliases[Top]["pong"][1] = "ping"
    /\ err = <<"unrecognized command:", Top, "pong">>

(***************************************************************************)
(* C27  When the name given to Init is both a registered name and a name   *)
(* of the alias table, and --no-alias is not set, the alias is substituted *)
(* before the registry is looked up: the name looked up is the first token *)
(* of the expansion, so the command registered under the given name (the   *)
(* built-in help included) is selected only if the expansion starts with   *)
(* that name, and then it is given the rest of the expansion before the    *)
(* args.  With --no-alias the registered command is selected.              *)
(***************************************************************************)
\* the name given is a registered name and an alias
Shadowed ==
    /\ InitDone
    /\ Resolving
    /\ st.args[1] \in DOMAIN subcmds[Top]
    /\ st.args[1] \in DOMAIN userAliases[Top]

C27_AliasShadows ==
    Shadowed =>
        LET name == st.args[1]
            expansion == userAliases[Top][name]
            own == IF st.showHelp[Top] THEN subcmds[Top]["help"] ELSE subcmds[Top][name]
        IN IF st.noAlias[Top]
           THEN st.action[Top] = own
           ELSE /\ Substituted
                /\ IF expansion[1] \in DOMAIN subcmds[Top]
                   THEN st.action[Top] = IF st.showHelp[Top] THEN subcmds[Top]["help"]
                                         ELSE subcmds[Top][expansion[1]]
                   ELSE /\ st.action[Top] = NoAction
                        /\ err = <<"unrecognized command:", Top, expansion[1]>>
                /\ (st.action[Top] = subcmds[Top][name] /\ ~st.showHelp[Top])
                      => /\ expansion[1] = name
                         /\ InitEvents(trace)[1].what = Tail(expansion) \o Tail(st.args)

\* help = test in the alias file: `help` has run the command test, not the
\* built-in help
C27_Witness ==
    /\ RunDone
    /\ cmdline = <<"help">>
    /\ Shadowed
    /\ "test" \in DOMAIN subcmds[Top]
    /\ st.action[Top] = subcmds[Top]["test"]
    /\ \E i \in HandlerRuns : trace[i].who = "test"
    /\ \A i \in 1..Len(trace) : trace[i].who # HelpOf(Top)

(***************************************************************************)
(* C28  As stated: with "help" registered, every request of at most 4      *)
(* characters yields a suggestion.                                         *)
(***************************************************************************)
\* a call of FindClosestSubCommand on a registry, not empty, of non-empty names
ClosestAsked ==
    /\ call.fn = "FindClosestSubCommand"
    /\ DOMAIN call.args[1] # {}
    /\ <<>> \notin DOMAIN call.args[1]

C28_AsStated ==
    (ClosestAsked /\ Help \in DOMAIN call.args[1] /\ Len(call.args[3]) <= 4)
        => call.result[1].ok

(***************************************************************************)
(* C28 (as amended)  On a registry, not empty, of non-empty names,         *)
(* FindClosestSubCommand reports no match only when the requested name is  *)
(* strictly longer than the best candidate (the name at least distance,    *)
(* the smallest name among equals): whenever the request is no longer than *)
(* the best candidate that candidate is returned, whatever the two strings *)
(* are, the distance being at most the longer length.  With "help"         *)
(* registered a request of at most 4 characters yields a suggestion when   *)
(* help is the best candidate, help being then returned; a shorter name    *)
(* that is as close or closer is the best candidate instead, and is        *)
(* refused when the distance exceeds its length.                           *)
(***************************************************************************)
C28_NoMatchOnlyWhenLonger ==
    ClosestAsked =>
        LET reg == call.args[1]
            name == call.args[3]
            r == call.result[1]
            best == Closest(reg, name)
            distance == levenshteinDistance(name, best)
            longer == IF Len(name) > Len(best) THEN Len(name) ELSE Len(best)
        IN /\ distance <= longer
           /\ ~r.ok => Len(name) > Len(best) /\ distance > Len(best)
           /\ Len(name) <= Len(best)
                 => r = [name |-> best, command |-> reg[best].command, ok |-> TRUE]
           /\ (Help \in DOMAIN reg /\ Len(name) <= 4 /\ best = Help) => r.name = Help
           /\ (DOMAIN reg = {Help} /\ Len(name) <= 4) => r.name = Help

\* bbbb, which shares no letter with help, is answered by help
C28_Witness ==
    /\ call.fn = "FindClosestSubCommand"
    /\ DOMAIN call.args[1] = {Help}
    /\ call.args[3] = <<"b", "b", "b", "b">>
    /\ levenshteinDistance(call.args[3], Help) = 4
    /\ call.result[1].ok
    /\ call.result[1].name = Help

(***************************************************************************)
(* Programs with or without a Log and a NotifyRun, and a UsagePrefix that  *)
(* is empty, the Name, or another word; Log.Start may fail.                *)
(***************************************************************************)
OrderParamSets ==
    [usagePrefix : {"", Top, "juju"}, version : {""}, aliasFile : {""},
     missingCallback : {FALSE}, log : BOOLEAN, notifyRun : BOOLEAN, purpose : {""}]

OrderLines ==
    {<<>>, <<"test">>, <<"flip">>, <<"x">>, <<"x", "--help">>, <<"help", "test">>,
     <<"test", "--option">>, <<Sub, "foo">>, <<"--description">>}

OrderParse == MainParseOf(OrderLines)

\* Main: Run of the SuperCommand when Log.Start returns an error
MainRunLogFails ==
    /\ params[Top].log
    /\ MainRunOf({LogStartFails})

OrderNext ==
    \/ DoRegister
    \/ DoRegisterDeprecated
    \/ DoRegisterAlias
    \/ SetupDone
    \/ OrderParse
    \/ MainInit
    \/ MainRun
    \/ MainRunLogFails

OrderSpec == InitWith(OrderParamSets) /\ [][OrderNext]_vars

(***************************************************************************)
(* C29  When Run of the SuperCommand has returned for a selected           *)
(* subcommand (--description not given): with a Log, Log.Start was called  *)
(* once and first, and when it failed Run returned its error with no       *)
(* notification, no warning and no handler run; otherwise NotifyRun, if    *)
(* set, was called exactly once, with the Name after the UsagePrefix       *)
(* unless the prefix is empty or equal to the Name, then the deprecation   *)
(* warning, if any, was written, and then the handler's Run was called,    *)
(* exactly once.                                                           *)
(***************************************************************************)
LogStarts == {i \in 1..Len(trace) : trace[i].ev = "Log.Start" /\ trace[i].who = Top}
Notifications == {i \in 1..Len(trace) : trace[i].ev = "notifyRun" /\ trace[i].who = Top}
NotifiedName ==
    IF params[Top].usagePrefix = "" \/ params[Top].usagePrefix = Top
    THEN <<Top>>
    ELSE <<params[Top].usagePrefix, Top>>

C29_RunOrder ==
    (RunDone /\ ~st.showDescription[Top]) =>
        /\ Cardinality(LogStarts) = IF params[Top].log THEN 1 ELSE 0
        /\ \A l \in LogStarts, i \in Notifications \cup Warnings \cup HandlerRuns : l < i
        /\ IF err = LogStartError
           THEN /\ params[Top].log
                /\ Notifications = {} /\ Warnings = {} /\ HandlerRuns = {}
                /\ exitCode = 1
           ELSE /\ Cardinality(Notifications) = IF params[Top].notifyRun THEN 1 ELSE 0
                /\ \A n \in Notifications : trace[n].what = NotifiedName
                /\ \A n \in Notifications, i \in Warnings \cup HandlerRuns : n < i
                /\ \A w \in Warnings, h \in HandlerRuns : w < h
                /\ Cardinality(HandlerRuns) = 1
                /\ Cardinality(Warnings)
                      = IF Deprecated(st.action[Top], checks).deprecated THEN 1 ELSE 0

\* the deprecated alias x on a program named juju jujutest with a Log and a
\* NotifyRun: Log.Start, the notification, the warning, the handler
C29_Witness ==
    /\ RunDone
    /\ cmdline = <<"x">>
    /\ params[Top].usagePrefix = "juju"
    /\ SelectSeq(trace, LAMBDA e : e.ev # "Init" /\ e.who # "ERROR")
          = <<Ev("Log.Start", Top, <<>>),
              Ev("notifyRun", Top, <<"juju", Top>>),
              Ev("stderr", "WARNING", <<"x", "new">>),
              Ev("Run", "test", <<"err">>)>>

(***************************************************************************)
(* The --format flag (formatterValue): a formatter name, and after '=' an  *)
(* argument for the formatters that take one.                              *)
(***************************************************************************)
MaxFormats == 3

\* DefaultFormatters: whether the formatter is a FormatterWithArgument
Formatters == [n \in {"yaml", "json", "template"} |-> [withArgument |-> n = "template"]]

\* formatTemplate.ValidateArg: the argument is a quoted template that parses;
\* the empty argument is not quoted
ValidateArg(arg) ==
    IF arg = <<"good">> THEN NoErr
    ELSE <<"template must be passed with quotes">>

\* the values given to --format
FormatValues ==
    {<<"yaml">>, <<"json">>, <<"nope">>, <<"template">>,
     <<"template", "=", "good">>, <<"template", "=", "bad">>,
     <<"yaml", "=", "good">>, <<"nope", "=", "good">>}

\* &formatterValue{formatters: formatters}
ZeroFormatter == [name |-> "", arg |-> <<>>]

\* formatterValue.Set: the value stored and the error returned
FormatterSet(v, value) ==
    LET args == SplitN2(value)
        name == IF args[1] = <<>> THEN "" ELSE args[1][1]
        arg == IF Len(args) = 2 THEN args[2] ELSE <<>>
    IN IF Len(args[1]) # 1 \/ name \notin DOMAIN Formatters
       THEN [v |-> v, err |-> <<"unknown format", value>>]
       ELSE LET named == [v EXCEPT !.name = name]
            IN IF Formatters[name].withArgument
               THEN IF ValidateArg(arg) # NoErr
                    THEN [v |-> named,
                          err |-> <<"formatter passed invalid argument", name, arg>>]
                    ELSE [v |-> [named EXCEPT !.arg = arg], err |-> NoErr]
               ELSE [v |-> named, err |-> NoErr]

\* newFormatterValue(initial, formatters), from Output.AddFlags: call.result
\* holds the values stored, the first after construction, and the errors
\* returned by the calls of Set
NewFormatterValue ==
    /\ call = NoCall
    /\ \E initial \in {<<"yaml">>, <<"template", "=", "good">>} :
          call' = [fn |-> "formatterValue", args |-> <<initial, <<>>>>,
                   result |-> <<<<FormatterSet(ZeroFormatter, initial).v>>, <<>>>>]
    /\ UNCHANGED <<params, subcmds, checks, userAliases, regs, lastReg, pc, cmdline,
                   st, err, trace, exitCode>>

\* one more --format on the command line
CallFormatterSet ==
    /\ call.fn = "formatterValue"
    /\ Len(call.args[2]) < MaxFormats
    /\ \E value \in FormatValues :
          LET stored == call.result[1]
              r == FormatterSet(stored[Len(stored)], value)
          IN call' = [call EXCEPT !.args[2] = Append(@, value),
                                  !.result = <<Append(stored, r.v),
                                               Append(call.result[2], r.err)>>]
    /\ UNCHANGED <<params, subcmds, checks, userAliases, regs, lastReg, pc, cmdline,
                   st, err, trace, exitCode>>

FormatNext ==
    \/ NewFormatterValue
    \/ CallFormatterSet

FormatSpec == LibInit /\ [][FormatNext]_vars

(***************************************************************************)
(* C30  As stated: a Set that returns an error leaves the stored name and  *)
(* argument as they were; the stored name is always a key of the formatter *)
(* map; and the stored name and argument are those of the last Set that    *)
(* returned nil (of the construction, when none did).                      *)
(***************************************************************************)
FormatsGiven == call.args[2]
FormatsStored == call.result[1]
FormatErrors == call.result[2]
\* the values accepted so far, the initial one first
Accepted ==
    <<call.args[1]>> \o
        SelectSeq([i \in 1..Len(FormatsGiven) |->
                      IF FormatErrors[i] = NoErr THEN FormatsGiven[i] ELSE <<>>],
                  LAMBDA x : x # <<>>)
LastAccepted == Accepted[Len(Accepted)]

C30_AsStated ==
    call.fn = "formatterValue" =>
        /\ \A i \in 1..Len(FormatsGiven) :
              FormatErrors[i] # NoErr => FormatsStored[i + 1] = FormatsStored[i]
        /\ \A i \in 1..Len(FormatsStored) : FormatsStored[i].name \in DOMAIN Formatters
        /\ LET now == FormatsStored[Len(FormatsStored)]
               parts == SplitN2(LastAccepted)
           IN /\ now.name = parts[1][1]
              /\ now.arg = IF Len(parts) = 2 THEN parts[2] ELSE <<>>

\* --format yaml --format template=bad: the second Set returned an error and
\* the stored name is template, with no argument
C30_Witness ==
    /\ call.fn = "formatterValue"
    /\ call.args = <<<<"yaml">>, <<<<"template", "=", "bad">>>>>>
    /\ FormatErrors[1] # NoErr
    /\ FormatsStored[1] = [name |-> "yaml", arg |-> <<>>]
    /\ FormatsStored[2] = [name |-> "template", arg |-> <<>>]

====
